------------------------- MODULE TurnLifecycleProofs -------------------------
(***************************************************************************)
(* Proofs about TurnLifecycle for every number of runs, announcements,     *)
(* jobs and steers: one turn at a time works on the room (OneTurnAlways),  *)
(* a steer is settled by the end of its turn (SteersSettled), the room is  *)
(* released (RoomAlwaysReleased), and announcements and results are kept   *)
(* (ConservedAlways).                                                      *)
(***************************************************************************)
EXTENDS TurnLifecycle, SequenceTheorems, TLAPS

-----------------------------------------------------------------------------
(* What a step of the goroutine of run r does to the goroutines.           *)

\* The goroutine of r is x afterwards, the other goroutines are as before.
Puts(r, x) ==
    /\ turn' \in [Runs -> TurnRec]
    /\ turn'[r] = x
    /\ \A q \in Runs : q # r => turn'[q] = turn[q]

\* What x keeps of t: the results and steers it has.
SameHands(x, t) == x.todo = t.todo /\ x.queue = t.queue /\ x.steer = t.steer /\ x.hand = t.hand

LEMMA PutsFacts ==
  ASSUME TypeOK, NEW r \in Runs, NEW x \in TurnRec, turn' = [turn EXCEPT ![r] = x]
  PROVE  Puts(r, x)
  BY DEF TypeOK, Puts

LEMMA GotoFacts ==
  ASSUME TypeOK, NEW r \in Runs, NEW pc \in TurnPcs, Goto(r, pc)
  PROVE  \E x \in TurnRec : /\ Puts(r, x) /\ SameHands(x, turn[r])
                            /\ x.pc = pc /\ x.snap = turn[r].snap
  <1>1. turn \in [Runs -> TurnRec]
    BY DEF TypeOK
  <1>. DEFINE x == [turn[r] EXCEPT !.pc = pc]
  <1>2. x \in TurnRec /\ SameHands(x, turn[r]) /\ x.pc = pc /\ x.snap = turn[r].snap
    BY <1>1 DEF TurnRec, SameHands
  <1>3. turn' = [turn EXCEPT ![r] = x]
    BY DEF Goto
  <1>. HIDE DEF x
  <1>. QED
    BY <1>2, <1>3, PutsFacts

LEMMA SavedFacts ==
  ASSUME TypeOK, NEW r \in Runs, NEW c \in Conversation, NEW pc \in TurnPcs, Saved(r, c, pc)
  PROVE  \E x \in TurnRec : /\ Puts(r, x) /\ SameHands(x, turn[r])
                            /\ x.pc = pc /\ x.snap = NoConv
  <1>1. turn \in [Runs -> TurnRec]
    BY DEF TypeOK
  <1>. DEFINE x == [turn[r] EXCEPT !.pc = pc, !.snap = NoConv]
  <1>2. x \in TurnRec /\ SameHands(x, turn[r]) /\ x.pc = pc /\ x.snap = NoConv
    BY ZenonT(60), <1>1 DEF TurnRec, SameHands, Snaps
  <1>3. turn' = [turn EXCEPT ![r] = x]
    BY DEF Saved
  <1>. HIDE DEF x
  <1>. QED
    BY <1>2, <1>3, PutsFacts

-----------------------------------------------------------------------------
(* The shape of the state: who has a snapshot, and who a steer in hand.    *)

\* Who saves has a copy to save, and who steers a run to steer.
Copies ==
    /\ \A s \in Steers : str[s].pc \in {"look", "queued"} => str[s].run \in Runs
    /\ usr.pc = "save" => usr.snap \in Conversation
    /\ \A n \in Notes : pub[n].pc = "save" => pub[n].snap \in Conversation
    /\ \A j \in Jobs : job[j].pc = "save" => job[j].snap \in Conversation
    /\ cmp.pc \in {"call", "save"} => cmp.snap \in Conversation

\* A turn has a steer in hand just while it saves the steer's message.
Hands == \A r \in Runs : turn[r].hand # Nobody <=> turn[r].pc = "steering"

\* A turn has a copy of the conversation only where it is about to save it.
Holding(t) ==
    /\ t.snap # NoConv => t.pc \in Writing
    /\ t.snap # NoConv /\ t.pc \in {"result", "left"} => t.todo # <<>>

Snapped == \A r \in Runs : Holding(turn[r])

Shape == TypeOK /\ Copies /\ Hands /\ Snapped

\* Where a turn holds the turn lock, where it is registered, and where the
\* room is released already.
Locked == InTurn \cup {"cleanup", "left", "recover", "unlock"}
Listed == InTurn \cup {"enter", "cleanup"}
Over == {"discard", "decide", "boundary", "append", "chain", "failed", "cleanup", "left", "recover"}

\* A step of t to x that moves no result and no steer.
Quiet(t, x) ==
    /\ SameHands(x, t) /\ Holding(x)
    /\ \/ x.pc = t.pc
       \/ t.pc \in InTurn /\ x.pc \in InTurn \cup {"cleanup"}
       \/ t.pc = "left" /\ x.pc = "recover"
    /\ t.pc \in BeforeDiscard => x.pc \in BeforeDiscard
    /\ x.pc \in Over => t.pc \in Over
    /\ t.pc = "steering" <=> x.pc = "steering"
    /\ t.pc \in {"result", "left"} /\ x.pc # t.pc => t.todo = <<>>
    /\ x.pc \in {"result", "left"} => x.pc = t.pc
    /\ x.snap # NoConv => x.pc = t.pc /\ x.snap \in {t.snap, conv}

\* A step of t to x that only saves c.
Saves(t, x, c) ==
    /\ SameHands(x, t) /\ x.snap = NoConv /\ t.snap # NoConv
    /\ \/ t.pc \in InTurn /\ x.pc \in InTurn
       \/ t.pc = "recover" /\ x.pc = "unlock"
    /\ t.pc \notin {"steering", "result", "left"} /\ x.pc \notin {"steering", "result", "left", "recover"}
    /\ t.pc \in BeforeDiscard => x.pc \in BeforeDiscard
    /\ x.pc \in Over \cup {"unlock"} => t.pc \in Over \/ c.status = "idle"
    /\ c = t.snap \/ c = SetStatus(t.snap, "idle")

LEMMA TurnShape ==
  ASSUME Shape, NEW r \in Runs
  PROVE  turn[r] \in TurnRec /\ Holding(turn[r]) /\ (turn[r].hand # Nobody <=> turn[r].pc = "steering")
  BY DEF Shape, TypeOK, Snapped, Hands

LEMMA StreamFacts ==
  ASSUME Shape, NEW r \in Runs, TurnStream(r)
  PROVE  \E x \in TurnRec : Puts(r, x) /\ Quiet(turn[r], x)
  <1>1. turn \in [Runs -> TurnRec] /\ TypeOK
    BY DEF Shape, TypeOK
  <1>2. CASE Goto(r, "fail")
    <2>1. PICK x \in TurnRec : Puts(r, x) /\ SameHands(x, turn[r]) /\ x.pc = "fail" /\ x.snap = turn[r].snap
      BY <1>1, <1>2, GotoFacts DEF TurnPcs, InTurn
    <2>. QED
      BY <2>1, TurnShape DEF TurnStream, Quiet, Holding, InTurn, BeforeDiscard, Over, Writing
  <1>3. CASE turn' = [turn EXCEPT ![r].pc = "persist", ![r].tool = TRUE,
                                  ![r].rounds = @ + 1, ![r].injected = FALSE]
    <2>1. PICK k \in Nat : k = turn[r].rounds + 1
      BY <1>1 DEF TurnRec
    <2>. DEFINE x == [turn[r] EXCEPT !.pc = "persist", !.tool = TRUE, !.rounds = k, !.injected = FALSE]
    <2>2. x \in TurnRec
      <3>1. turn[r] \in TurnRec /\ "persist" \in TurnPcs /\ TRUE \in BOOLEAN /\ FALSE \in BOOLEAN
        BY <1>1 DEF TurnPcs, InTurn
      <3>. QED
        BY <3>1, <2>1, Zenon DEF TurnRec
    <2>5. SameHands(x, turn[r]) /\ x.pc = "persist" /\ x.snap = turn[r].snap
      BY <1>1 DEF TurnRec, SameHands
    <2>3. turn' = [turn EXCEPT ![r] = x]
      BY <1>3, <2>1
    <2>. HIDE DEF x
    <2>4. Puts(r, x)
      BY <1>1, <2>2, <2>3, PutsFacts
    <2>. QED
      BY <2>2, <2>4, <2>5, TurnShape DEF TurnStream, Quiet, Holding, InTurn, BeforeDiscard, Over, Writing
  <1>4. CASE turn' = [turn EXCEPT ![r].pc = "persist", ![r].tool = FALSE, ![r].injected = FALSE]
    <2>. DEFINE x == [turn[r] EXCEPT !.pc = "persist", !.tool = FALSE, !.injected = FALSE]
    <2>2. x \in TurnRec
      <3>1. turn[r] \in TurnRec /\ "persist" \in TurnPcs /\ TRUE \in BOOLEAN /\ FALSE \in BOOLEAN
        BY <1>1 DEF TurnPcs, InTurn
      <3>. QED
        BY <3>1, Zenon DEF TurnRec
    <2>5. SameHands(x, turn[r]) /\ x.pc = "persist" /\ x.snap = turn[r].snap
      BY <1>1 DEF TurnRec, SameHands
    <2>3. turn' = [turn EXCEPT ![r] = x]
      BY <1>4
    <2>. HIDE DEF x
    <2>4. Puts(r, x)
      BY <1>1, <2>2, <2>3, PutsFacts
    <2>. QED
      BY <2>2, <2>4, <2>5, TurnShape DEF TurnStream, Quiet, Holding, InTurn, BeforeDiscard, Over, Writing
  <1>. QED
    BY <1>2, <1>3, <1>4 DEF TurnStream

LEMMA LoadFacts ==
  ASSUME Shape, NEW r \in Runs, TurnLoad(r)
  PROVE  \E x \in TurnRec : Puts(r, x) /\ Quiet(turn[r], x)
  <1>1. turn \in [Runs -> TurnRec] /\ TypeOK /\ conv \in Snaps
    BY DEF Shape, TypeOK, Snaps
  <1>. DEFINE x == [turn[r] EXCEPT !.snap = conv]
  <1>2. x \in TurnRec
    <2>1. turn[r] \in TurnRec /\ conv \in Snaps
      BY <1>1
    <2>. QED
      BY <2>1, Zenon DEF TurnRec
  <1>3. SameHands(x, turn[r]) /\ x.pc = turn[r].pc /\ x.snap = conv
    BY <1>1 DEF TurnRec, SameHands
  <1>4. turn' = [turn EXCEPT ![r] = x]
    BY DEF TurnLoad
  <1>. HIDE DEF x
  <1>5. Puts(r, x)
    BY <1>1, <1>2, <1>4, PutsFacts
  <1>6. Holding(x)
    BY <1>3 DEF TurnLoad, Holding, SameHands
  <1>. QED
    BY <1>2, <1>3, <1>5, <1>6, TurnShape DEF Quiet

\* A jump that moves nothing is quiet.
LEMMA JumpFacts ==
  ASSUME Shape, NEW r \in Runs, NEW pc \in TurnPcs, Goto(r, pc), pc # turn[r].pc,
         \/ turn[r].pc \in InTurn /\ pc \in InTurn \cup {"cleanup"}
         \/ turn[r].pc = "left" /\ pc = "recover",
         turn[r].pc \in BeforeDiscard => pc \in BeforeDiscard,
         pc \in Over => turn[r].pc \in Over,
         turn[r].pc # "steering" /\ pc \notin {"steering", "result", "left"},
         turn[r].pc \in {"result", "left"} => turn[r].todo = <<>>,
         turn[r].pc \notin Writing \ {"result", "left"}
  PROVE  \E x \in TurnRec : Puts(r, x) /\ Quiet(turn[r], x)
  <1>1. PICK x \in TurnRec : /\ Puts(r, x) /\ SameHands(x, turn[r])
                             /\ x.pc = pc /\ x.snap = turn[r].snap
    BY GotoFacts DEF Shape
  <1>2. turn[r].snap = NoConv
    BY TurnShape DEF Holding
  <1>3. Holding(x)
    BY <1>1, <1>2 DEF Holding
  <1>. QED
    BY <1>1, <1>2, <1>3 DEF Quiet

LEMMA CompactFacts ==
  ASSUME Shape, NEW r \in Runs, TurnCompact(r)
  PROVE  \E x \in TurnRec : Puts(r, x) /\ Quiet(turn[r], x)
  BY JumpFacts DEF TurnCompact, TurnPcs, InTurn, BeforeDiscard, Over, Writing

LEMMA ToolsFacts ==
  ASSUME Shape, NEW r \in Runs, TurnTools(r)
  PROVE  \E x \in TurnRec : Puts(r, x) /\ Quiet(turn[r], x)
  <1>1. CASE Goto(r, "toolsave")
    BY <1>1, JumpFacts DEF TurnTools, TurnPcs, InTurn, BeforeDiscard, Over, Writing
  <1>2. CASE Goto(r, "ask")
    BY <1>2, JumpFacts DEF TurnTools, TurnPcs, InTurn, BeforeDiscard, Over, Writing
  <1>. QED
    BY <1>1, <1>2 DEF TurnTools

LEMMA AskFacts ==
  ASSUME Shape, NEW r \in Runs, TurnAskEnds(r) \/ AskAnswer(r)
  PROVE  \E x \in TurnRec : Puts(r, x) /\ Quiet(turn[r], x)
  BY JumpFacts DEF TurnAskEnds, AskAnswer, TurnPcs, InTurn, BeforeDiscard, Over, Writing

LEMMA CompletedFacts ==
  ASSUME Shape, NEW r \in Runs, TurnCompleted(r)
  PROVE  \E x \in TurnRec : Puts(r, x) /\ Quiet(turn[r], x)
  <1>1. CASE turn[r].pc = "result"
    <2>1. Goto(r, "drain") /\ turn[r].todo = <<>>
      BY <1>1 DEF TurnCompleted
    <2>. QED
      BY <1>1, <2>1, JumpFacts DEF TurnPcs, InTurn, BeforeDiscard, Over, Writing
  <1>2. CASE turn[r].pc = "left"
    <2>1. Goto(r, "recover") /\ turn[r].todo = <<>>
      BY <1>2 DEF TurnCompleted
    <2>. QED
      BY <1>2, <2>1, JumpFacts DEF TurnPcs, InTurn, BeforeDiscard, Over, Writing
  <1>. QED
    BY <1>1, <1>2 DEF TurnCompleted

LEMMA SettleFacts ==
  ASSUME Shape, NEW r \in Runs, TurnSettle(r)
  PROVE  \E x \in TurnRec : Puts(r, x) /\ Quiet(turn[r], x)
  <1>1. CASE Goto(r, "next")
    BY <1>1, JumpFacts DEF TurnSettle, TurnPcs, InTurn, BeforeDiscard, Over, Writing
  <1>2. CASE Goto(r, "finish")
    BY <1>2, JumpFacts DEF TurnSettle, TurnPcs, InTurn, BeforeDiscard, Over, Writing
  <1>. QED
    BY <1>1, <1>2 DEF TurnSettle

LEMMA DecideFacts ==
  ASSUME Shape, NEW r \in Runs, TurnDecide(r)
  PROVE  \E x \in TurnRec : Puts(r, x) /\ Quiet(turn[r], x)
  <1>1. CASE Goto(r, "boundary")
    BY <1>1, JumpFacts DEF TurnDecide, TurnPcs, InTurn, BeforeDiscard, Over, Writing
  <1>2. CASE Goto(r, "cleanup")
    BY <1>2, JumpFacts DEF TurnDecide, TurnPcs, InTurn, BeforeDiscard, Over, Writing
  <1>. QED
    BY <1>1, <1>2 DEF TurnDecide

LEMMA ChainFacts ==
  ASSUME Shape, NEW r \in Runs, TurnChain(r)
  PROVE  \E x \in TurnRec : Puts(r, x) /\ Quiet(turn[r], x)
  <1>1. turn \in [Runs -> TurnRec] /\ TypeOK
    BY DEF Shape, TypeOK
  <1>2. CASE turn[r].stopped
    <2>1. Goto(r, "cleanup")
      BY <1>2 DEF TurnChain, Goto
    <2>. QED
      BY <2>1, JumpFacts DEF TurnChain, TurnPcs, InTurn, BeforeDiscard, Over, Writing
  <1>3. CASE ~turn[r].stopped
    <2>1. PICK k \in Nat : k = turn[r].chain + 1
      BY <1>1 DEF TurnRec
    <2>. DEFINE x == [turn[r] EXCEPT !.pc = "stream", !.chain = k, !.rounds = 0]
    <2>2. x \in TurnRec
      <3>1. turn[r] \in TurnRec /\ "stream" \in TurnPcs /\ 0 \in Nat
        BY <1>1 DEF TurnPcs, InTurn
      <3>. QED
        BY <2>1, <3>1, Zenon DEF TurnRec
    <2>3. SameHands(x, turn[r]) /\ x.pc = "stream" /\ x.snap = turn[r].snap
      BY <1>1 DEF TurnRec, SameHands
    <2>4. turn' = [turn EXCEPT ![r] = x]
      BY <1>3, <2>1 DEF TurnChain
    <2>. HIDE DEF x
    <2>5. Puts(r, x)
      BY <1>1, <2>2, <2>4, PutsFacts
    <2>. QED
      BY <2>2, <2>3, <2>5, TurnShape
         DEF TurnChain, Quiet, Holding, InTurn, BeforeDiscard, Over, Writing
  <1>. QED
    BY SMTT(60), <1>2, <1>3

LEMMA StopFacts ==
  ASSUME Shape, NEW r \in Runs, UserStop(r)
  PROVE  \E x \in TurnRec : Puts(r, x) /\ Quiet(turn[r], x)
  <1>1. turn \in [Runs -> TurnRec] /\ TypeOK
    BY DEF Shape, TypeOK
  <1>. DEFINE x == [turn[r] EXCEPT !.stopped = TRUE]
  <1>2. x \in TurnRec
    <2>1. turn[r] \in TurnRec /\ TRUE \in BOOLEAN
      BY <1>1
    <2>. QED
      BY <2>1, Zenon DEF TurnRec
  <1>3. SameHands(x, turn[r]) /\ x.pc = turn[r].pc /\ x.snap = turn[r].snap
    BY <1>1 DEF TurnRec, SameHands
  <1>4. turn' = [turn EXCEPT ![r] = x]
    BY DEF UserStop
  <1>. HIDE DEF x
  <1>5. Puts(r, x)
    BY <1>1, <1>2, <1>4, PutsFacts
  <1>6. Holding(x)
    BY <1>3, TurnShape DEF Holding, SameHands
  <1>. QED
    BY <1>2, <1>3, <1>5, <1>6, TurnShape DEF Quiet

LEMMA NoSteerFacts ==
  ASSUME Shape, NEW r \in Runs, TurnSteer(r), turn[r].steer = Nobody
  PROVE  \E x \in TurnRec : Puts(r, x) /\ Quiet(turn[r], x)
  <1>1. Goto(r, "settle")
    BY DEF TurnSteer, Goto
  <1>. QED
    BY <1>1, JumpFacts DEF TurnSteer, TurnPcs, InTurn, BeforeDiscard, Over, Writing

LEMMA TakeSteerFacts ==
  ASSUME Shape, NEW r \in Runs, TurnSteer(r), turn[r].steer # Nobody
  PROVE  \E x \in TurnRec : /\ Puts(r, x) /\ x.pc = "steering" /\ x.snap = NoConv
                            /\ x.todo = turn[r].todo /\ x.queue = turn[r].queue
                            /\ x.hand = turn[r].steer /\ x.steer = Nobody
  <1>1. turn \in [Runs -> TurnRec] /\ TypeOK
    BY DEF Shape, TypeOK
  <1>2. PICK s \in Steers \cup {Nobody} : s = turn[r].steer
    BY <1>1 DEF TurnRec
  <1>. DEFINE x == [turn[r] EXCEPT !.pc = "steering", !.hand = s, !.steer = Nobody]
  <1>3. x \in TurnRec
    <2>1. turn[r] \in TurnRec /\ "steering" \in TurnPcs /\ Nobody \in Steers \cup {Nobody}
      BY <1>1 DEF TurnPcs, InTurn
    <2>. QED
      BY <2>1, <1>2, Zenon DEF TurnRec
  <1>4. /\ x.pc = "steering" /\ x.snap = turn[r].snap /\ x.todo = turn[r].todo
        /\ x.queue = turn[r].queue /\ x.hand = s /\ x.steer = Nobody
    BY <1>1 DEF TurnRec
  <1>5. turn' = [turn EXCEPT ![r] = x]
    BY <1>2 DEF TurnSteer
  <1>. HIDE DEF x
  <1>6. Puts(r, x)
    BY <1>1, <1>3, <1>5, PutsFacts
  <1>. QED
    BY <1>2, <1>3, <1>4, <1>6, TurnShape DEF TurnSteer, Holding, Writing

\* What a saving step of the goroutine does to the rest of the state.
Stores(r, c) ==
    /\ Save(turn[r].snap, c) /\ c \in Conversation /\ NoFault
    /\ UNCHANGED <<runs, pub, job, wake, usr, cmp, str, locks, tracked, acked, dropped, bounds>>

LEMMA StatusFacts ==
  ASSUME NEW c \in Conversation, NEW s \in {"idle", "running"}
  PROVE  /\ SetStatus(c, s) \in Conversation /\ SetStatus(c, s).status = s
         /\ SetStatus(c, s).pend = c.pend /\ SetStatus(c, s).log = c.log
  BY DEF Conversation, SetStatus

\* A copy in a turn's hands is a conversation.
LEMMA SnapFacts ==
  ASSUME TypeOK, NEW r \in Runs, turn[r].snap # NoConv
  PROVE  turn[r].snap \in Conversation
  BY DEF TypeOK, TurnRec, Snaps

LEMMA StoreFacts ==
  ASSUME Shape, NEW r \in Runs, NEW pc \in TurnPcs, NEW c,
         c = turn[r].snap \/ c = SetStatus(turn[r].snap, "idle"),
         Saved(r, c, pc),
         \/ turn[r].pc \in InTurn /\ pc \in InTurn
         \/ turn[r].pc = "recover" /\ pc = "unlock",
         turn[r].pc \notin {"steering", "result", "left"},
         pc \notin {"steering", "result", "left", "recover"},
         turn[r].pc \in BeforeDiscard => pc \in BeforeDiscard,
         pc \in Over \cup {"unlock"} => turn[r].pc \in Over \/ c = SetStatus(turn[r].snap, "idle")
  PROVE  Stores(r, c) /\ \E x \in TurnRec : Puts(r, x) /\ Saves(turn[r], x, c) /\ x.pc = pc
  <1>1. turn[r].snap \in Conversation /\ turn[r].snap # NoConv
    BY SnapFacts DEF Shape, Saved
  <1>2. c \in Conversation /\ (c = SetStatus(turn[r].snap, "idle") => c.status = "idle")
    BY <1>1, StatusFacts
  <1>3. PICK x \in TurnRec : Puts(r, x) /\ SameHands(x, turn[r]) /\ x.pc = pc /\ x.snap = NoConv
    BY <1>2, SavedFacts DEF Shape
  <1>. QED
    BY <1>1, <1>2, <1>3 DEF Saves, Stores, Saved

LEMMA PersistFacts ==
  ASSUME Shape, NEW r \in Runs, TurnPersist(r)
  PROVE  \E c : Stores(r, c) /\ \E x \in TurnRec : Puts(r, x) /\ Saves(turn[r], x, c)
  <1>. DEFINE To(pc) == Saved(r, turn[r].snap, pc)
  <1>1. CASE turn[r].pc \in {"persist", "toolsave"} /\ To("results")
    BY <1>1, StoreFacts DEF TurnPcs, InTurn, BeforeDiscard, Over
  <1>2. CASE turn[r].pc = "persist" /\ To("tools")
    <2>1. /\ {"persist", "tools"} \subseteq InTurn \ ({"steering", "result", "left", "recover", "unlock"} \cup Over)
          /\ "tools" \in BeforeDiscard /\ "tools" \in TurnPcs
      BY DEF InTurn, BeforeDiscard, Over, TurnPcs
    <2>. QED
      BY <1>2, <2>1, StoreFacts
  <1>3. CASE turn[r].pc = "toolsave" /\ To("fail")
    BY <1>3, StoreFacts DEF TurnPcs, InTurn, BeforeDiscard, Over
  <1>4. CASE turn[r].pc \in {"next", "compact"} /\ To("stream")
    BY <1>4, StoreFacts DEF TurnPcs, InTurn, BeforeDiscard, Over
  <1>5. CASE turn[r].pc = "boundary" /\ To("append")
    BY <1>5, StoreFacts DEF TurnPcs, InTurn, BeforeDiscard, Over
  <1>6. CASE turn[r].pc = "append" /\ To("chain")
    BY <1>6, StoreFacts DEF TurnPcs, InTurn, BeforeDiscard, Over
  <1>. QED
    BY <1>1, <1>2, <1>3, <1>4, <1>5, <1>6 DEF TurnPersist

LEMMA FinishFacts ==
  ASSUME Shape, NEW r \in Runs, TurnFinish(r)
  PROVE  \E c : Stores(r, c) /\ \E x \in TurnRec : Puts(r, x) /\ Saves(turn[r], x, c)
  <1>. DEFINE c == SetStatus(turn[r].snap, "idle")
  <1>1. CASE turn[r].pc = "finish" /\ Saved(r, c, "discard")
    BY <1>1, StoreFacts DEF TurnPcs, InTurn, BeforeDiscard, Over
  <1>2. CASE turn[r].pc = "fail" /\ Saved(r, c, "failed")
    BY <1>2, StoreFacts DEF TurnPcs, InTurn, BeforeDiscard, Over
  <1>. QED
    BY <1>1, <1>2 DEF TurnFinish

LEMMA RecoverFacts ==
  ASSUME Shape, NEW r \in Runs, TurnRecover(r)
  PROVE  \/ \E c : /\ Stores(r, c) /\ turn[r].pc = "recover" /\ c.status = "idle"
                   /\ \E x \in TurnRec : Puts(r, x) /\ Saves(turn[r], x, c) /\ x.pc = "unlock"
         \/ /\ turn[r].pc = "recover" /\ turn[r].snap # NoConv /\ turn[r].snap.status = "idle" /\ Local
            /\ \E x \in TurnRec : /\ Puts(r, x) /\ SameHands(x, turn[r])
                                  /\ x.pc = "unlock" /\ x.snap = NoConv
  <1>. DEFINE c == SetStatus(turn[r].snap, "idle")
  <1>0. turn \in [Runs -> TurnRec] /\ TypeOK /\ turn[r].pc = "recover" /\ turn[r].snap # NoConv
    BY DEF Shape, TypeOK, TurnRecover
  <1>1. CASE Saved(r, c, "unlock")
    <2>1. c.status = "idle"
      BY <1>0, SnapFacts, StatusFacts
    <2>. QED
      BY <1>0, <1>1, <2>1, StoreFacts DEF TurnPcs, InTurn, BeforeDiscard, Over
  <1>2. CASE /\ turn[r].snap.status = "idle" /\ Local
             /\ turn' = [turn EXCEPT ![r].pc = "unlock", ![r].snap = NoConv]
    <2>. DEFINE x == [turn[r] EXCEPT !.pc = "unlock", !.snap = NoConv]
    <2>1. x \in TurnRec /\ SameHands(x, turn[r]) /\ x.pc = "unlock" /\ x.snap = NoConv
      BY ZenonT(60), <1>0 DEF TurnRec, SameHands, Snaps, TurnPcs
    <2>2. turn' = [turn EXCEPT ![r] = x]
      BY <1>2
    <2>. HIDE DEF x
    <2>3. Puts(r, x)
      BY <1>0, <2>1, <2>2, PutsFacts
    <2>. QED
      BY <1>0, <1>2, <2>1, <2>3
  <1>. QED
    BY <1>1, <1>2 DEF TurnRecover

LEMMA ResultsFacts ==
  ASSUME Shape, NEW r \in Runs, TurnResults(r)
  PROVE  \E x \in TurnRec : /\ Puts(r, x) /\ x.pc = "result" /\ x.snap = NoConv
                            /\ x.todo = turn[r].queue /\ x.queue = <<>>
                            /\ x.steer = turn[r].steer /\ x.hand = turn[r].hand
  <1>1. turn \in [Runs -> TurnRec] /\ TypeOK
    BY DEF Shape, TypeOK
  <1>2. PICK q \in Seq(Jobs) : q = turn[r].queue
    BY <1>1 DEF TurnRec
  <1>. DEFINE x == [turn[r] EXCEPT !.pc = "result", !.todo = q, !.queue = <<>>]
  <1>3. x \in TurnRec
    <2>1. turn[r] \in TurnRec /\ "result" \in TurnPcs /\ <<>> \in Seq(Jobs)
      BY <1>1 DEF TurnPcs, InTurn
    <2>. QED
      BY <2>1, <1>2, Zenon DEF TurnRec
  <1>4. /\ x.pc = "result" /\ x.snap = turn[r].snap /\ x.todo = q /\ x.queue = <<>>
        /\ x.steer = turn[r].steer /\ x.hand = turn[r].hand
    BY <1>1 DEF TurnRec
  <1>5. turn' = [turn EXCEPT ![r] = x]
    BY <1>2 DEF TurnResults
  <1>. HIDE DEF x
  <1>6. Puts(r, x)
    BY <1>1, <1>3, <1>5, PutsFacts
  <1>. QED
    BY <1>2, <1>3, <1>4, <1>6, TurnShape DEF TurnResults, Holding, Writing

LEMMA CompleteFacts ==
  ASSUME Shape, NEW r \in Runs, TurnComplete(r)
  PROVE  \E x \in TurnRec : /\ Puts(r, x) /\ x.pc = turn[r].pc /\ x.snap = NoConv
                            /\ x.todo = Tail(turn[r].todo) /\ x.queue = turn[r].queue
                            /\ x.steer = turn[r].steer /\ x.hand = turn[r].hand
  <1>1. turn \in [Runs -> TurnRec] /\ TypeOK /\ turn[r].todo # <<>>
    BY DEF Shape, TypeOK, TurnComplete
  <1>2. PICK q \in Seq(Jobs) : q = Tail(turn[r].todo)
    <2>1. turn[r].todo \in Seq(Jobs)
      BY <1>1 DEF TurnRec
    <2>. QED
      BY <2>1, <1>1, HeadTailProperties
  <1>3. PICK b \in BOOLEAN : b = (turn[r].pc = "left" /\ Len(turn[r].todo) = 1)
    OBVIOUS
  <1>. DEFINE x == [turn[r] EXCEPT !.snap = NoConv, !.todo = q, !.injected = TRUE, !.flushed = b]
  <1>4. x \in TurnRec
    <2>1. turn[r] \in TurnRec /\ NoConv \in Snaps /\ TRUE \in BOOLEAN
      BY <1>1 DEF Snaps
    <2>. QED
      BY <2>1, <1>2, <1>3, Zenon DEF TurnRec
  <1>5. /\ x.pc = turn[r].pc /\ x.snap = NoConv /\ x.todo = q /\ x.queue = turn[r].queue
        /\ x.steer = turn[r].steer /\ x.hand = turn[r].hand
    BY <1>1 DEF TurnRec
  <1>6. turn' = [turn EXCEPT ![r] = x]
    <2>1. turn' = [turn EXCEPT ![r].snap = NoConv, ![r].todo = Tail(@), ![r].injected = TRUE,
                               ![r].flushed = b]
      BY <1>3, Zenon DEF TurnComplete
    <2>. QED
      BY <2>1, <1>1, <1>2
  <1>. HIDE DEF x
  <1>7. Puts(r, x)
    BY <1>1, <1>4, <1>6, PutsFacts
  <1>. QED
    BY <1>2, <1>4, <1>5, <1>7

LEMMA DrainFacts ==
  ASSUME Shape, NEW r \in Runs, TurnDrain(r)
  PROVE  \E x \in TurnRec : /\ Puts(r, x) /\ SameHands(x, turn[r])
                            /\ x.pc = "steer" /\ x.snap = NoConv
  <1>1. turn \in [Runs -> TurnRec] /\ TypeOK
    BY DEF Shape, TypeOK
  <1>2. PICK b \in BOOLEAN : b = (turn[r].injected \/ conv.pend # <<>>)
    OBVIOUS
  <1>. DEFINE x == [turn[r] EXCEPT !.pc = "steer", !.injected = b]
  <1>3. x \in TurnRec
    <2>1. turn[r] \in TurnRec /\ "steer" \in TurnPcs
      BY <1>1 DEF TurnPcs, InTurn
    <2>. QED
      BY <2>1, <1>2, Zenon DEF TurnRec
  <1>4. SameHands(x, turn[r]) /\ x.pc = "steer" /\ x.snap = turn[r].snap
    BY <1>1 DEF TurnRec, SameHands
  <1>5. turn' = [turn EXCEPT ![r] = x]
    <2>1. turn' = [turn EXCEPT ![r].pc = "steer", ![r].injected = @ \/ conv.pend # <<>>]
      BY DEF TurnDrain
    <2>. QED
      BY <2>1, <1>1, <1>2
  <1>. HIDE DEF x
  <1>6. Puts(r, x)
    BY <1>1, <1>3, <1>5, PutsFacts
  <1>. QED
    BY <1>3, <1>4, <1>6, TurnShape DEF TurnDrain, Holding, Writing

LEMMA SteeredFacts ==
  ASSUME Shape, NEW r \in Runs, TurnSteered(r)
  PROVE  \E x \in TurnRec : /\ Puts(r, x) /\ x.pc = "settle" /\ x.snap = NoConv
                            /\ x.todo = turn[r].todo /\ x.queue = turn[r].queue
                            /\ x.steer = turn[r].steer /\ x.hand = Nobody
  <1>1. turn \in [Runs -> TurnRec] /\ TypeOK
    BY DEF Shape, TypeOK
  <1>. DEFINE x == [turn[r] EXCEPT !.pc = "settle", !.snap = NoConv, !.hand = Nobody, !.injected = TRUE]
  <1>2. x \in TurnRec
    <2>1. /\ turn[r] \in TurnRec /\ "settle" \in TurnPcs /\ NoConv \in Snaps
          /\ Nobody \in Steers \cup {Nobody} /\ TRUE \in BOOLEAN
      BY <1>1 DEF TurnPcs, InTurn, Snaps
    <2>. QED
      BY <2>1, Zenon DEF TurnRec
  <1>3. /\ x.pc = "settle" /\ x.snap = NoConv /\ x.todo = turn[r].todo /\ x.queue = turn[r].queue
        /\ x.steer = turn[r].steer /\ x.hand = Nobody
    BY <1>1 DEF TurnRec
  <1>4. turn' = [turn EXCEPT ![r] = x]
    BY DEF TurnSteered
  <1>. HIDE DEF x
  <1>5. Puts(r, x)
    BY <1>1, <1>2, <1>4, PutsFacts
  <1>. QED
    BY <1>2, <1>3, <1>5

LEMMA DiscardFacts ==
  ASSUME Shape, NEW r \in Runs, TurnDiscard(r)
  PROVE  \E x \in TurnRec : /\ Puts(r, x) /\ x.snap = NoConv
                            /\ x.pc = IF turn[r].pc = "discard" THEN "decide" ELSE "cleanup"
                            /\ x.todo = turn[r].todo /\ x.queue = turn[r].queue
                            /\ x.steer = Nobody /\ x.hand = turn[r].hand
  <1>1. turn \in [Runs -> TurnRec] /\ TypeOK
    BY DEF Shape, TypeOK
  <1>2. PICK pc \in {"decide", "cleanup"} : pc = IF turn[r].pc = "discard" THEN "decide" ELSE "cleanup"
    OBVIOUS
  <1>. DEFINE x == [turn[r] EXCEPT !.pc = pc, !.steer = Nobody]
  <1>3. x \in TurnRec
    <2>1. turn[r] \in TurnRec /\ pc \in TurnPcs /\ Nobody \in Steers \cup {Nobody}
      BY <1>1 DEF TurnPcs, InTurn
    <2>. QED
      BY <2>1, Zenon DEF TurnRec
  <1>6. /\ x.pc = pc /\ x.snap = turn[r].snap /\ x.todo = turn[r].todo
        /\ x.queue = turn[r].queue /\ x.steer = Nobody /\ x.hand = turn[r].hand
    BY <1>1 DEF TurnRec
  <1>4. turn' = [turn EXCEPT ![r] = x]
    <2>1. CASE turn[r].pc = "discard"
      BY <2>1, <1>1, <1>2 DEF TurnDiscard
    <2>2. CASE turn[r].pc # "discard"
      BY <2>2, <1>1, <1>2 DEF TurnDiscard
    <2>. QED
      BY <2>1, <2>2
  <1>. HIDE DEF x
  <1>5. Puts(r, x)
    BY <1>1, <1>3, <1>4, PutsFacts
  <1>. QED
    BY <1>2, <1>3, <1>5, <1>6, TurnShape DEF TurnDiscard, Holding, Writing

LEMMA CleanupFacts ==
  ASSUME Shape, NEW r \in Runs, TurnCleanup(r)
  PROVE  \E x \in TurnRec : /\ Puts(r, x) /\ x.pc = "left" /\ x.snap = NoConv
                            /\ x.todo = turn[r].queue /\ x.queue = <<>>
                            /\ x.steer = turn[r].steer /\ x.hand = turn[r].hand
  <1>1. turn \in [Runs -> TurnRec] /\ TypeOK
    BY DEF Shape, TypeOK
  <1>2. PICK q \in Seq(Jobs) : q = turn[r].queue
    BY <1>1 DEF TurnRec
  <1>. DEFINE x == [turn[r] EXCEPT !.pc = "left", !.todo = q, !.queue = <<>>]
  <1>3. x \in TurnRec
    <2>1. turn[r] \in TurnRec /\ "left" \in TurnPcs /\ <<>> \in Seq(Jobs)
      BY <1>1 DEF TurnPcs
    <2>. QED
      BY <2>1, <1>2, Zenon DEF TurnRec
  <1>4. /\ x.pc = "left" /\ x.snap = turn[r].snap /\ x.todo = q /\ x.queue = <<>>
        /\ x.steer = turn[r].steer /\ x.hand = turn[r].hand
    BY <1>1 DEF TurnRec
  <1>5. turn' = [turn EXCEPT ![r] = x]
    BY <1>2 DEF TurnCleanup
  <1>. HIDE DEF x
  <1>6. Puts(r, x)
    BY <1>1, <1>3, <1>5, PutsFacts
  <1>. QED
    BY <1>2, <1>3, <1>4, <1>6, TurnShape DEF TurnCleanup, Holding, Writing

\* What a provider error, a store error or a panic leaves of the goroutine of r.
LEMMA FaultFacts ==
  ASSUME Shape, NEW r \in Runs, TurnFault(r)
  PROVE  LET back == turn[r].pc = "steering" /\ turn[r].steer = Nobody IN
         \E x \in TurnRec : /\ Puts(r, x) /\ x.pc = AfterFault(turn[r].pc) /\ x.snap = NoConv
                            /\ x.todo = <<>> /\ x.hand = Nobody
                            /\ x.queue = IF turn[r].pc = "result" THEN turn[r].todo \o turn[r].queue
                                         ELSE turn[r].queue
                            /\ x.steer = IF back THEN turn[r].hand ELSE turn[r].steer
  <1>1. turn \in [Runs -> TurnRec] /\ TypeOK
    BY DEF Shape, TypeOK
  <1>. DEFINE t == turn[r]
              back == t.pc = "steering" /\ t.steer = Nobody
  <1>2. t \in TurnRec
    BY <1>1
  <1>3. AfterFault(t.pc) \in TurnPcs
    BY <1>2 DEF AfterFault, TurnPcs, InTurn
  <1>4. PICK pc \in TurnPcs : pc = AfterFault(t.pc)
    BY <1>3
  <1>5. PICK q \in Seq(Jobs) : q = IF t.pc = "result" THEN t.todo \o t.queue ELSE t.queue
    <2>1. t.todo \in Seq(Jobs) /\ t.queue \in Seq(Jobs)
      BY <1>2 DEF TurnRec
    <2>2. t.todo \o t.queue \in Seq(Jobs)
      BY <2>1, ConcatProperties
    <2>. QED
      BY <2>1, <2>2
  <1>6. PICK s \in Steers \cup {Nobody} : s = IF back THEN t.hand ELSE t.steer
    BY <1>2 DEF TurnRec
  <1>. DEFINE x == [t EXCEPT !.pc = pc, !.snap = NoConv, !.hand = Nobody, !.todo = <<>>,
                             !.queue = q, !.steer = s, !.flushed = FALSE]
  <1>7. x \in TurnRec
    <2>1. /\ NoConv \in Snaps /\ Nobody \in Steers \cup {Nobody} /\ FALSE \in BOOLEAN
          /\ <<>> \in Seq(Jobs)
      BY DEF Snaps
    <2>. QED
      BY <2>1, <1>2, <1>4, <1>5, <1>6, ZenonT(60) DEF TurnRec
  <1>8. /\ x.pc = pc /\ x.snap = NoConv /\ x.todo = <<>> /\ x.hand = Nobody
        /\ x.queue = q /\ x.steer = s
    BY <1>2 DEF TurnRec
  <1>9. turn' = [turn EXCEPT ![r] = x]
    <2>1. turn' = [turn EXCEPT ![r] =
                 [t EXCEPT !.pc = AfterFault(t.pc), !.snap = NoConv, !.hand = Nobody,
                           !.todo = <<>>, !.queue = IF t.pc = "result" THEN t.todo \o @ ELSE @,
                           !.steer = IF back THEN t.hand ELSE @, !.flushed = FALSE]]
      BY DEF TurnFault
    <2>2. [t EXCEPT !.pc = AfterFault(t.pc), !.snap = NoConv, !.hand = Nobody,
                    !.todo = <<>>, !.queue = IF t.pc = "result" THEN t.todo \o @ ELSE @,
                    !.steer = IF back THEN t.hand ELSE @, !.flushed = FALSE] = x
      BY <1>2, <1>4, <1>5, <1>6 DEF TurnRec
    <2>. HIDE DEF x, t, back
    <2>. QED
      BY <2>1, <2>2
  <1>. HIDE DEF x
  <1>10. Puts(r, x)
    BY <1>1, <1>7, <1>9, PutsFacts
  <1>. QED
    BY <1>4, <1>5, <1>6, <1>7, <1>8, <1>10

LEMMA PanicFacts ==
  ASSUME Shape, NEW r \in Runs, TurnPanic(r)
  PROVE  \E x \in TurnRec : /\ Puts(r, x) /\ x.pc = "cleanup" /\ x.snap = NoConv
                            /\ x.todo = <<>> /\ x.hand = Nobody
                            /\ x.queue = turn[r].queue /\ x.steer = turn[r].steer
  <1>1. turn \in [Runs -> TurnRec] /\ TypeOK
    BY DEF Shape, TypeOK
  <1>. DEFINE x == [turn[r] EXCEPT !.pc = "cleanup", !.snap = NoConv, !.todo = <<>>, !.hand = Nobody]
  <1>2. x \in TurnRec
    <2>1. /\ turn[r] \in TurnRec /\ "cleanup" \in TurnPcs /\ NoConv \in Snaps
          /\ Nobody \in Steers \cup {Nobody} /\ <<>> \in Seq(Jobs)
      BY <1>1 DEF TurnPcs, Snaps
    <2>. QED
      BY <2>1, Zenon DEF TurnRec
  <1>3. /\ x.pc = "cleanup" /\ x.snap = NoConv /\ x.todo = <<>> /\ x.hand = Nobody
        /\ x.queue = turn[r].queue /\ x.steer = turn[r].steer
    BY <1>1 DEF TurnRec
  <1>4. turn' = [turn EXCEPT ![r] = x]
    BY DEF TurnPanic
  <1>. HIDE DEF x
  <1>5. Puts(r, x)
    BY <1>1, <1>2, <1>4, PutsFacts
  <1>. QED
    BY <1>2, <1>3, <1>5

\* The slot of a queued steer is set to s.
LEMMA SlotFacts ==
  ASSUME Shape, NEW r \in Runs, NEW s \in Steers \cup {Nobody},
         turn' = [turn EXCEPT ![r].steer = s]
  PROVE  \E x \in TurnRec : /\ Puts(r, x) /\ x.pc = turn[r].pc /\ x.snap = turn[r].snap
                            /\ x.todo = turn[r].todo /\ x.queue = turn[r].queue
                            /\ x.steer = s /\ x.hand = turn[r].hand
  <1>1. turn \in [Runs -> TurnRec] /\ TypeOK
    BY DEF Shape, TypeOK
  <1>. DEFINE x == [turn[r] EXCEPT !.steer = s]
  <1>2. x \in TurnRec
    <2>1. turn[r] \in TurnRec
      BY <1>1
    <2>. QED
      BY <2>1, Zenon DEF TurnRec
  <1>3. /\ x.pc = turn[r].pc /\ x.snap = turn[r].snap /\ x.todo = turn[r].todo
        /\ x.queue = turn[r].queue /\ x.steer = s /\ x.hand = turn[r].hand
    BY <1>1 DEF TurnRec
  <1>4. turn' = [turn EXCEPT ![r] = x]
    OBVIOUS
  <1>. HIDE DEF x
  <1>5. Puts(r, x)
    BY <1>1, <1>2, <1>4, PutsFacts
  <1>. QED
    BY <1>2, <1>3, <1>5

\* A result is queued on a registered run.
LEMMA EnqueueFacts ==
  ASSUME Shape, NEW r \in Runs, NEW j \in Jobs, turn' = [turn EXCEPT ![r].queue = Append(@, j)]
  PROVE  \E x \in TurnRec : /\ Puts(r, x) /\ x.pc = turn[r].pc /\ x.snap = turn[r].snap
                            /\ x.todo = turn[r].todo /\ x.queue = Append(turn[r].queue, j)
                            /\ x.steer = turn[r].steer /\ x.hand = turn[r].hand
  <1>1. turn \in [Runs -> TurnRec] /\ TypeOK
    BY DEF Shape, TypeOK
  <1>2. PICK q \in Seq(Jobs) : q = Append(turn[r].queue, j)
    <2>1. turn[r].queue \in Seq(Jobs)
      BY <1>1 DEF TurnRec
    <2>. QED
      BY <2>1, AppendProperties
  <1>. DEFINE x == [turn[r] EXCEPT !.queue = q]
  <1>3. x \in TurnRec
    <2>1. turn[r] \in TurnRec
      BY <1>1
    <2>. QED
      BY <2>1, <1>2, Zenon DEF TurnRec
  <1>4. /\ x.pc = turn[r].pc /\ x.snap = turn[r].snap /\ x.todo = turn[r].todo
        /\ x.queue = q /\ x.steer = turn[r].steer /\ x.hand = turn[r].hand
    BY <1>1 DEF TurnRec
  <1>5. turn' = [turn EXCEPT ![r] = x]
    BY <1>2
  <1>. HIDE DEF x
  <1>6. Puts(r, x)
    BY <1>1, <1>3, <1>5, PutsFacts
  <1>. QED
    BY <1>2, <1>3, <1>4, <1>6

\* The run that is registered is a new one.
LEMMA LaunchFacts ==
  ASSUME Shape, HasFresh, Launch
  PROVE  \E r \in Runs : /\ turn[r].pc = "new" /\ runs' = runs \cup {r}
                         /\ \E x \in TurnRec : /\ Puts(r, x) /\ SameHands(x, turn[r])
                                               /\ x.pc = "enter" /\ x.snap = NoConv
  <1>1. Fresh \in Runs /\ turn[Fresh].pc = "new"
    BY DEF HasFresh, Fresh
  <1>2. PICK r \in Runs : r = Fresh
    BY <1>1
  <1>3. Goto(r, "enter") /\ runs' = runs \cup {r}
    BY <1>2 DEF Launch, Goto
  <1>4. PICK x \in TurnRec : Puts(r, x) /\ SameHands(x, turn[r]) /\ x.pc = "enter" /\ x.snap = turn[r].snap
    BY <1>3, GotoFacts DEF Shape, TurnPcs
  <1>5. turn[r].snap = NoConv
    BY <1>1, <1>2, TurnShape DEF Holding, Writing
  <1>. QED
    BY <1>1, <1>2, <1>3, <1>4, <1>5

-----------------------------------------------------------------------------
(* The shape of the state is kept.                                         *)

TurnsOK == turn \in [Runs -> TurnRec] /\ Hands /\ Snapped

RestOK ==
    /\ conv \in Conversation /\ runs \subseteq Runs
    /\ pub \in [Notes -> PubRec] /\ job \in [Jobs -> JobRec] /\ wake \in [Wakers -> WakeRec]
    /\ usr \in UsrRec /\ cmp \in CmpRec /\ str \in [Steers -> SteerRec]
    /\ startMu \in Actors \cup {Nobody} /\ turnLock \in Actors \cup {Nobody}
    /\ annLock \in Actors \cup {Nobody}
    /\ tracked \subseteq Jobs
    /\ acked \subseteq Notes /\ dropped \subseteq Notes
    /\ starts \in 0..MaxStarts /\ stops \in 0..MaxStops
    /\ compactions \in 0..MaxCompactions
    /\ faults \in 0..MaxFaults /\ crashes \in 0..MaxCrashes
    /\ Copies

LEMMA ShapeParts ==
  Shape <=> TurnsOK /\ RestOK /\ clash \in BOOLEAN
  <1>1. ASSUME Shape PROVE TurnsOK /\ RestOK
    BY <1>1 DEF Shape, TypeOK, TurnsOK, RestOK
  <1>2. ASSUME Shape PROVE clash \in BOOLEAN
    BY <1>2, Zenon DEF Shape, TypeOK
  <1>3. ASSUME TurnsOK, RestOK, clash \in BOOLEAN PROVE Shape
    <2>1. {startMu, turnLock, annLock} \subseteq Actors \cup {Nobody}
      BY <1>3 DEF RestOK
    <2>. QED
      BY <1>3, <2>1, Zenon DEF Shape, TypeOK, TurnsOK, RestOK
  <1>. QED
    BY <1>1, <1>2, <1>3

LEMMA ShapeNext ==
  (TurnsOK /\ RestOK /\ clash \in BOOLEAN)' <=> Shape'
  BY ShapeParts, PTL

LEMMA TurnsPut ==
  ASSUME Shape, NEW r \in Runs, NEW x \in TurnRec, Puts(r, x), Holding(x),
         x.hand # Nobody <=> x.pc = "steering"
  PROVE  TurnsOK'
  BY DEF Shape, Puts, TurnsOK, Hands, Snapped

LEMMA TurnsStay ==
  ASSUME Shape, turn' = turn
  PROVE  TurnsOK'
  BY DEF Shape, TypeOK, TurnsOK, Hands, Snapped

\* The saves only add to the history.
LEMMA ClashFacts ==
  ASSUME Shape, NEW snap, NEW c, Save(snap, c) \/ UNCHANGED clash
  PROVE  clash' \in BOOLEAN
  <1>1. clash \in BOOLEAN
    BY DEF Shape, TypeOK
  <1>. QED
    BY <1>1, Zenon DEF Save

LEMMA DrainedFacts ==
  ASSUME NEW c \in Conversation
  PROVE  /\ DrainPendingAnnouncements(c) \in Conversation
         /\ DrainPendingAnnouncements(c).pend = <<>>
         /\ DrainPendingAnnouncements(c).log = c.log \o c.pend
         /\ DrainPendingAnnouncements(c).status = c.status
  <1>1. c.pend \in Seq(Facts) /\ c.log \in Seq(Facts) /\ <<>> \in Seq(Notes)
    BY DEF Conversation, Facts
  <1>2. c.log \o c.pend \in Seq(Facts)
    BY <1>1, ConcatProperties
  <1>. QED
    BY <1>1, <1>2 DEF Conversation, DrainPendingAnnouncements

LEMMA AddFacts ==
  ASSUME NEW c \in Conversation, NEW f \in Facts
  PROVE  /\ Add(c, f) \in Conversation /\ Add(c, f).pend = c.pend
         /\ Add(c, f).log = Append(c.log, f) /\ Add(c, f).status = c.status
  <1>1. Append(c.log, f) \in Seq(Facts)
    BY AppendProperties DEF Conversation
  <1>. QED
    BY <1>1 DEF Conversation, Add

LEMMA QueuedFacts ==
  ASSUME NEW c \in Conversation, NEW n \in Notes
  PROVE  /\ QueueAnnouncement(c, n) \in Conversation
         /\ QueueAnnouncement(c, n).pend = LET q == Append(c.pend, n)
                                           IN  IF Len(q) > MaxPending THEN Tail(q) ELSE q
         /\ QueueAnnouncement(c, n).log = c.log /\ QueueAnnouncement(c, n).status = c.status
  <1>. DEFINE q == Append(c.pend, n)
  <1>1. q \in Seq(Notes) /\ q # <<>>
    BY AppendProperties DEF Conversation
  <1>2. Tail(q) \in Seq(Notes)
    BY <1>1, HeadTailProperties
  <1>3. PICK p \in Seq(Notes) : p = IF Len(q) > MaxPending THEN Tail(q) ELSE q
    BY <1>1, <1>2
  <1>4. QueueAnnouncement(c, n) = [c EXCEPT !.pend = p]
    BY <1>3 DEF QueueAnnouncement
  <1>5. [c EXCEPT !.pend = p] \in Conversation
    BY DEF Conversation
  <1>6. [c EXCEPT !.pend = p].pend = p /\ [c EXCEPT !.pend = p].log = c.log /\ [c EXCEPT !.pend = p].status = c.status
    BY DEF Conversation
  <1>. QED
    BY <1>3, <1>4, <1>5, <1>6

\* The parts of the shape that the goroutines of turns leave alone.
LEMMA RestFacts ==
  ASSUME Shape
  PROVE  RestOK /\ clash \in BOOLEAN
  BY ShapeParts

LEMMA UserShape ==
  ASSUME Shape, UserStart \/ UserLoad \/ UserSave
  PROVE  Shape'
  <1>1. CASE UserStart
    <2>1. TurnsOK'
      BY <1>1, TurnsStay DEF UserStart
    <2>2. clash' \in BOOLEAN
      BY <1>1, ClashFacts DEF UserStart, history
    <2>3. RestOK'
      BY <1>1, RestFacts, TurnAssumption
         DEF UserStart, RestOK, Copies, UsrRec, NoFault, history, Actors
    <2>. QED
      BY <2>1, <2>2, <2>3, ShapeNext
  <1>2. CASE UserLoad
    <2>1. TurnsOK'
      BY <1>2, TurnsStay DEF UserLoad
    <2>2. clash' \in BOOLEAN
      BY <1>2, ClashFacts DEF UserLoad, history
    <2>3. RestOK'
      BY <1>2, RestFacts, TurnAssumption
         DEF UserLoad, RestOK, Copies, UsrRec, NoFault, history, bounds, Actors, Snaps
    <2>. QED
      BY <2>1, <2>2, <2>3, ShapeNext
  <1>3. CASE UserSave
    <2>. DEFINE c == SetStatus(DrainPendingAnnouncements(usr.snap), "running")
    <2>0. usr.snap \in Conversation
      BY <1>3 DEF Shape, Copies, UserSave
    <2>1. c \in Conversation
      BY <2>0, DrainedFacts, StatusFacts
    <2>2. usr' = Idle /\ Idle \in UsrRec /\ Idle.pc = "idle"
      BY <1>3 DEF UserSave, Idle, UsrRec, Snaps
    <2>3. CASE HasFresh /\ NoFault /\ Save(usr.snap, c) /\ Launch
      <3>1. PICK r \in Runs : /\ turn[r].pc = "new" /\ runs' = runs \cup {r}
                              /\ \E x \in TurnRec : /\ Puts(r, x) /\ SameHands(x, turn[r])
                                                    /\ x.pc = "enter" /\ x.snap = NoConv
        BY <2>3, LaunchFacts
      <3>2. TurnsOK'
        BY <3>1, TurnsPut, TurnShape DEF SameHands, Holding
      <3>3. clash' \in BOOLEAN
        BY <2>3, ClashFacts
      <3>. HIDE DEF c
      <3>4. RestOK'
        BY <1>3, <2>1, <2>2, <2>3, <3>1, RestFacts
           DEF UserSave, RestOK, Copies, NoFault, Save, bounds
      <3>. QED
        BY <3>2, <3>3, <3>4, ShapeNext
    <2>4. CASE AFault /\ UNCHANGED <<conv, clash, runs, turn>>
      <3>1. TurnsOK'
        BY <2>4, TurnsStay
      <3>2. clash' \in BOOLEAN
        BY <2>4, ClashFacts
      <3>3. RestOK'
        BY <1>3, <2>2, <2>4, RestFacts, TurnAssumption
           DEF UserSave, RestOK, Copies, AFault, bounds
      <3>. QED
        BY <3>1, <3>2, <3>3, ShapeNext
    <2>. QED
      BY <1>3, <2>3, <2>4 DEF UserSave
  <1>. QED
    BY <1>1, <1>2, <1>3

LEMMA CallFacts ==
  ASSUME Shape, NEW p \in Wakers, NEW peer \in BOOLEAN, Call(p, peer)
  PROVE  /\ wake' \in [Wakers -> WakeRec]
         /\ wake'[p].pc = "want" /\ \A q \in Wakers : q # p => wake'[q] = wake[q]
  BY RestFacts DEF RestOK, Call, WakeRec

\* startIdleConversationTurn of p goes to pc.
LEMMA WakeGoes ==
  ASSUME Shape, NEW p \in Wakers, NEW pc \in {"no", "want", "turn", "go"},
         wake' = [wake EXCEPT ![p].pc = pc]
  PROVE  /\ wake' \in [Wakers -> WakeRec]
         /\ wake'[p].pc = pc /\ \A q \in Wakers : q # p => wake'[q] = wake[q]
  <1>. DEFINE x == [wake[p] EXCEPT !.pc = pc]
  <1>1. wake \in [Wakers -> WakeRec]
    BY RestFacts DEF RestOK
  <1>2. x \in WakeRec /\ x.pc = pc
    BY <1>1 DEF WakeRec
  <1>3. wake' = [wake EXCEPT ![p] = x]
    OBVIOUS
  <1>. HIDE DEF x
  <1>. QED
    BY <1>1, <1>2, <1>3

LEMMA WakeShape ==
  ASSUME Shape, NEW p \in Wakers, WakeEnter(p) \/ WakeTurn(p) \/ WakeGo(p)
  PROVE  Shape'
  <1>1. wake' \in [Wakers -> WakeRec]
    BY WakeGoes DEF WakeEnter, WakeTurn, WakeGo, Return
  <1>2. CASE WakeEnter(p)
    <2>1. TurnsOK'
      BY <1>2, TurnsStay DEF WakeEnter
    <2>2. clash' \in BOOLEAN
      BY <1>2, ClashFacts DEF WakeEnter, history
    <2>3. RestOK'
      BY <1>1, <1>2, RestFacts DEF WakeEnter, RestOK, Copies, NoFault, history, bounds, Actors
    <2>. QED
      BY <2>1, <2>2, <2>3, ShapeNext
  <1>3. CASE WakeTurn(p)
    <2>1. TurnsOK'
      BY <1>3, TurnsStay DEF WakeTurn
    <2>2. clash' \in BOOLEAN
      BY <1>3, ClashFacts DEF WakeTurn, history
    <2>3. RestOK'
      BY <1>1, <1>3, RestFacts DEF WakeTurn, RestOK, Copies, NoFault, history, bounds, Actors
    <2>. QED
      BY <2>1, <2>2, <2>3, ShapeNext
  <1>4. CASE WakeGo(p)
    <2>. DEFINE c == SetStatus(DrainPendingAnnouncements(conv), "running")
    <2>0. conv \in Conversation
      BY RestFacts DEF RestOK
    <2>1. c \in Conversation
      BY <2>0, DrainedFacts, StatusFacts
    <2>3. CASE HasFresh /\ NoFault /\ Save(conv, c) /\ Launch
      <3>1. PICK r \in Runs : /\ turn[r].pc = "new" /\ runs' = runs \cup {r}
                              /\ \E x \in TurnRec : /\ Puts(r, x) /\ SameHands(x, turn[r])
                                                    /\ x.pc = "enter" /\ x.snap = NoConv
        BY <2>3, LaunchFacts
      <3>2. TurnsOK'
        BY <3>1, TurnsPut, TurnShape DEF SameHands, Holding
      <3>3. clash' \in BOOLEAN
        BY <2>3, ClashFacts
      <3>. HIDE DEF c
      <3>4. RestOK'
        BY <1>1, <1>4, <2>1, <2>3, <3>1, RestFacts
           DEF WakeGo, RestOK, Copies, NoFault, Save, bounds
      <3>. QED
        BY <3>2, <3>3, <3>4, ShapeNext
    <2>4. CASE (NoFault \/ AFault) /\ UNCHANGED <<conv, clash, runs, turn>>
      <3>1. TurnsOK'
        BY <2>4, TurnsStay
      <3>2. clash' \in BOOLEAN
        BY <2>4, ClashFacts
      <3>3. RestOK'
        BY <1>1, <1>4, <2>4, RestFacts, TurnAssumption
           DEF WakeGo, RestOK, Copies, AFault, NoFault, bounds
      <3>. QED
        BY <3>1, <3>2, <3>3, ShapeNext
    <2>. QED
      BY <1>4, <2>3, <2>4 DEF WakeGo
  <1>. QED
    BY <1>2, <1>3, <1>4

LEMMA PubShape ==
  ASSUME Shape, NEW n \in Notes, PubLoad(n) \/ PubSave(n)
  PROVE  Shape'
  <1>0. n \in Wakers /\ NoteKind[n] \in {"peer", "wake", "plain"}
    BY TurnAssumption DEF Wakers
  <1>1. TurnsOK'
    BY TurnsStay DEF PubLoad, PubSave
  <1>2. CASE PubLoad(n)
    <2>1. clash' \in BOOLEAN
      BY <1>2, ClashFacts DEF PubLoad, history
    <2>2. RestOK'
      BY <1>2, RestFacts
         DEF PubLoad, RestOK, Copies, PubRec, NoFault, history, bounds, Actors, Wakers, Snaps
    <2>. QED
      BY <1>1, <2>1, <2>2, ShapeNext
  <1>3. CASE PubSave(n)
    <2>. DEFINE c == QueueAnnouncement(pub[n].snap, n)
    <2>0. pub[n].snap \in Conversation
      BY <1>3, RestFacts DEF RestOK, Copies, PubSave
    <2>1. c \in Conversation
      BY <2>0, QueuedFacts
    <2>2. [pc |-> "done", snap |-> NoConv] \in PubRec
      BY DEF PubRec, Snaps
    <2>3. CASE /\ NoFault /\ Save(pub[n].snap, c)
               /\ dropped' = IF Len(c.pend) > Len(pub[n].snap.pend) THEN dropped
                             ELSE dropped \cup {pub[n].snap.pend[1]}
               /\ acked' = acked \cup {n}
               /\ IF NoteKind[n] = "plain" THEN wake' = wake ELSE Call(n, NoteKind[n] = "peer")
      <3>1. wake' \in [Wakers -> WakeRec]
        <4>1. PICK b \in BOOLEAN : b = (NoteKind[n] = "peer")
          OBVIOUS
        <4>2. CASE Call(n, NoteKind[n] = "peer")
          <5>1. Call(n, b)
            BY <4>1, <4>2, Zenon
          <5>. QED
            BY <5>1, <1>0, CallFacts
        <4>3. CASE wake' = wake
          BY <4>3, RestFacts DEF RestOK
        <4>. QED
          BY <2>3, <4>2, <4>3
      <3>2. clash' \in BOOLEAN
        BY <2>3, ClashFacts
      <3>3. dropped' \subseteq Notes
        <4>1. dropped \subseteq Notes
          BY RestFacts DEF RestOK
        <4>2. CASE Len(c.pend) > Len(pub[n].snap.pend)
          BY <2>3, <4>1, <4>2
        <4>3. CASE ~(Len(c.pend) > Len(pub[n].snap.pend))
          <5>. DEFINE s == pub[n].snap.pend
          <5>1. s \in Seq(Notes)
            BY <2>0 DEF Conversation
          <5>2. s # <<>>
            <6>. DEFINE q == Append(s, n)
            <6>1. c.pend = IF Len(q) > MaxPending THEN Tail(q) ELSE q
              BY <2>0, QueuedFacts
            <6>2. Len(q) = Len(s) + 1 /\ q \in Seq(Notes) /\ Len(s) \in Nat
              BY <5>1, AppendProperties
            <6>3. SUFFICES ASSUME s = <<>> PROVE FALSE
              OBVIOUS
            <6>4. Len(s) = 0 /\ Len(q) = 1
              BY <6>2, <6>3
            <6>5. c.pend = q
              BY <6>1, <6>4, TurnAssumption
            <6>. QED
              BY <4>3, <6>4, <6>5
          <5>3. s[1] \in Notes
            BY <5>1, <5>2
          <5>. QED
            BY <2>3, <4>1, <4>3, <5>3
        <4>. QED
          BY <4>2, <4>3
      <3>. HIDE DEF c
      <3>4. RestOK'
        BY <1>3, <2>1, <2>2, <2>3, <3>1, <3>3, RestFacts
           DEF PubSave, RestOK, Copies, NoFault, Save, bounds
      <3>. QED
        BY <1>1, <3>2, <3>4, ShapeNext
    <2>4. CASE AFault /\ UNCHANGED <<conv, history, wake>>
      <3>1. clash' \in BOOLEAN
        BY <2>4, ClashFacts DEF history
      <3>2. RestOK'
        BY <1>3, <2>2, <2>4, RestFacts, TurnAssumption
           DEF PubSave, RestOK, Copies, AFault, bounds, history
      <3>. QED
        BY <1>1, <3>1, <3>2, ShapeNext
    <2>. QED
      BY <1>3, <2>3, <2>4 DEF PubSave
  <1>. QED
    BY <1>2, <1>3

LEMMA JobShape ==
  ASSUME Shape, NEW j \in Jobs, JobDone(j) \/ JobLoad(j) \/ JobSave(j)
  PROVE  Shape'
  <1>0. j \in Wakers /\ j \in Facts
    BY DEF Wakers, Facts
  <1>1. CASE JobDone(j)
    <2>1. TurnsOK'
      <3>1. CASE turn' = turn
        BY <3>1, TurnsStay
      <3>2. ASSUME NEW r \in runs, turn' = [turn EXCEPT ![r].queue = Append(@, j)]
            PROVE  TurnsOK'
        <4>1. r \in Runs
          BY RestFacts DEF RestOK
        <4>2. PICK x \in TurnRec : /\ Puts(r, x) /\ x.pc = turn[r].pc /\ x.snap = turn[r].snap
                                   /\ x.todo = turn[r].todo /\ x.queue = Append(turn[r].queue, j)
                                   /\ x.steer = turn[r].steer /\ x.hand = turn[r].hand
          BY <3>2, <4>1, EnqueueFacts
        <4>. QED
          BY <4>1, <4>2, TurnsPut, TurnShape DEF Holding
      <3>. QED
        BY <1>1, <3>1, <3>2 DEF JobDone
    <2>2. clash' \in BOOLEAN
      BY <1>1, ClashFacts DEF JobDone, history
    <2>3. RestOK'
      <3>1. [pc |-> "done", snap |-> NoConv] \in JobRec /\ [pc |-> "wait", snap |-> NoConv] \in JobRec
        BY DEF JobRec, Snaps
      <3>. QED
        BY <1>1, <3>1, RestFacts
           DEF JobDone, SetJobPc, RestOK, Copies, NoFault, history, bounds, locks
    <2>. QED
      BY <2>1, <2>2, <2>3, ShapeNext
  <1>2. CASE JobLoad(j)
    <2>1. TurnsOK'
      BY <1>2, TurnsStay DEF JobLoad
    <2>2. clash' \in BOOLEAN
      BY <1>2, ClashFacts DEF JobLoad, history
    <2>3. RestOK'
      BY <1>0, <1>2, RestFacts
         DEF JobLoad, SetJobPc, JobRec, RestOK, Copies, NoFault, history, bounds, Actors, Snaps
    <2>. QED
      BY <2>1, <2>2, <2>3, ShapeNext
  <1>3. CASE JobSave(j)
    <2>. DEFINE c == Add(job[j].snap, j)
    <2>0. job[j].snap \in Conversation
      BY <1>3, RestFacts DEF RestOK, Copies, JobSave
    <2>1. c \in Conversation
      BY <1>0, <2>0, AddFacts
    <2>2. [pc |-> "done", snap |-> NoConv] \in JobRec /\ [pc |-> "lost", snap |-> NoConv] \in JobRec
      BY DEF JobRec, Snaps
    <2>3. TurnsOK'
      BY <1>3, TurnsStay DEF JobSave
    <2>4. CASE /\ NoFault /\ Save(job[j].snap, c)
               /\ tracked' = tracked \ {j} /\ Call(j, FALSE) /\ SetJobPc(j, "done", NoConv)
      <3>1. wake' \in [Wakers -> WakeRec]
        BY <1>0, <2>4, CallFacts
      <3>2. clash' \in BOOLEAN
        BY <2>4, ClashFacts
      <3>. HIDE DEF c
      <3>3. RestOK'
        BY <1>3, <2>1, <2>2, <2>4, <3>1, RestFacts
           DEF JobSave, SetJobPc, RestOK, Copies, NoFault, Save, bounds
      <3>. QED
        BY <2>3, <3>2, <3>3, ShapeNext
    <2>5. CASE AFault /\ SetJobPc(j, "lost", NoConv) /\ UNCHANGED <<conv, clash, tracked, wake>>
      <3>2. clash' \in BOOLEAN
        BY <2>5, ClashFacts
      <3>3. RestOK'
        BY <1>3, <2>2, <2>5, RestFacts, TurnAssumption
           DEF JobSave, SetJobPc, RestOK, Copies, AFault, bounds
      <3>. QED
        BY <2>3, <3>2, <3>3, ShapeNext
    <2>. QED
      BY <1>3, <2>4, <2>5 DEF JobSave
  <1>. QED
    BY <1>1, <1>2, <1>3

LEMMA CmpShape ==
  ASSUME Shape, CmpStart \/ CmpLoad \/ CmpRefresh \/ CmpSave \/ CmpFault \/ CmpClear
  PROVE  Shape'
  <1>1. TurnsOK'
    BY TurnsStay DEF CmpStart, CmpLoad, CmpRefresh, CmpSave, CmpFault, CmpClear, CmpStep
  <1>2. clash' \in BOOLEAN
    BY ClashFacts DEF CmpStart, CmpLoad, CmpRefresh, CmpSave, CmpFault, CmpClear, history
  <1>3. [pc |-> "clear", snap |-> NoConv] \in CmpRec /\ Idle \in CmpRec /\ Idle.pc = "idle"
    BY DEF CmpRec, Snaps, Idle
  <1>4. CASE CmpStart
    <2>1. RestOK'
      BY <1>4, RestFacts, TurnAssumption
         DEF CmpStart, RestOK, Copies, CmpRec, NoFault, history, locks
    <2>. QED
      BY <1>1, <1>2, <2>1, ShapeNext
  <1>5. CASE CmpLoad
    <2>1. RestOK'
      BY <1>5, RestFacts
         DEF CmpLoad, CmpStep, RestOK, Copies, CmpRec, NoFault, bounds, Actors, Snaps
    <2>. QED
      BY <1>1, <1>2, <2>1, ShapeNext
  <1>6. CASE CmpRefresh
    <2>1. conv.pend \in Seq(Notes) /\ cmp.snap \in Conversation
      BY <1>6, RestFacts DEF RestOK, Copies, CmpRefresh, CmpStep, Conversation
    <2>. DEFINE c == [cmp.snap EXCEPT !.pend = conv.pend]
    <2>2. c \in Conversation
      BY <2>1 DEF Conversation
    <2>3. cmp' = [pc |-> "save", snap |-> c]
      BY <1>6 DEF CmpRefresh, CmpStep
    <2>. HIDE DEF c
    <2>4. RestOK'
      BY <1>6, <2>2, <2>3, RestFacts
         DEF CmpRefresh, CmpStep, RestOK, Copies, CmpRec, NoFault, bounds, Snaps
    <2>. QED
      BY <1>1, <1>2, <2>4, ShapeNext
  <1>7. CASE CmpSave
    <2>1. RestOK'
      BY <1>3, <1>7, RestFacts DEF CmpSave, CmpStep, RestOK, Copies, Save, NoFault, bounds
    <2>. QED
      BY <1>1, <1>2, <2>1, ShapeNext
  <1>8. CASE CmpFault
    <2>1. RestOK'
      BY <1>3, <1>8, RestFacts, TurnAssumption DEF CmpFault, CmpStep, RestOK, Copies, AFault, bounds
    <2>. QED
      BY <1>1, <1>2, <2>1, ShapeNext
  <1>9. CASE CmpClear
    <2>1. RestOK'
      BY <1>3, <1>9, RestFacts DEF CmpClear, CmpStep, RestOK, Copies, NoFault, bounds
    <2>. QED
      BY <1>1, <1>2, <2>1, ShapeNext
  <1>. QED
    BY <1>4, <1>5, <1>6, <1>7, <1>8, <1>9

LEMMA QuietPut ==
  ASSUME Shape, NEW r \in Runs, \E x \in TurnRec : Puts(r, x) /\ Quiet(turn[r], x)
  PROVE  TurnsOK'
  BY TurnsPut, TurnShape DEF Quiet, SameHands

LEMMA SavesPut ==
  ASSUME Shape, NEW r \in Runs, NEW c, \E x \in TurnRec : Puts(r, x) /\ Saves(turn[r], x, c)
  PROVE  TurnsOK'
  BY TurnsPut, TurnShape DEF Saves, SameHands, Holding

LEMMA LocalRest ==
  ASSUME Shape, Local
  PROVE  RestOK' /\ clash' \in BOOLEAN
  <1>1. RestOK'
    BY RestFacts DEF Local, RestOK, Copies, NoFault, history, bounds, locks
  <1>2. clash' \in BOOLEAN
    BY ClashFacts DEF Local, history
  <1>. QED
    BY <1>1, <1>2

LEMMA StoresRest ==
  ASSUME Shape, NEW r \in Runs, NEW c, Stores(r, c)
  PROVE  RestOK' /\ clash' \in BOOLEAN
  <1>1. RestOK'
    BY RestFacts DEF Stores, Save, RestOK, Copies, NoFault, bounds, locks
  <1>2. clash' \in BOOLEAN
    BY ClashFacts DEF Stores
  <1>. QED
    BY <1>1, <1>2

\* A step of the goroutine in memory.
LEMMA MemoryShape ==
  ASSUME Shape, NEW r \in Runs,
         \/ TurnStream(r) \/ TurnLoad(r) \/ TurnAskEnds(r) \/ AskAnswer(r) \/ TurnResults(r)
         \/ TurnCompleted(r) \/ TurnSteer(r) \/ TurnSettle(r) \/ TurnDecide(r) \/ TurnChain(r)
  PROVE  Shape'
  <1>1. RestOK' /\ clash' \in BOOLEAN
    <2>1. Local
      BY DEF TurnStream, TurnLoad, TurnAskEnds, AskAnswer, TurnResults, TurnCompleted, TurnSteer,
             TurnSettle, TurnDecide, TurnChain
    <2>. QED
      BY <2>1, LocalRest
  <1>2. TurnsOK'
    <2>1. CASE TurnStream(r) \/ TurnLoad(r)
      BY <2>1, QuietPut, StreamFacts, LoadFacts
    <2>2. CASE TurnAskEnds(r) \/ AskAnswer(r) \/ TurnCompleted(r)
      BY <2>2, QuietPut, AskFacts, CompletedFacts
    <2>3. CASE TurnSettle(r) \/ TurnDecide(r) \/ TurnChain(r)
      BY <2>3, QuietPut, SettleFacts, DecideFacts, ChainFacts
    <2>4. CASE TurnSteer(r)
      <3>1. CASE turn[r].steer = Nobody
        BY <2>4, <3>1, QuietPut, NoSteerFacts
      <3>2. CASE turn[r].steer # Nobody
        <4>1. PICK x \in TurnRec : /\ Puts(r, x) /\ x.pc = "steering" /\ x.snap = NoConv
                                   /\ x.todo = turn[r].todo /\ x.queue = turn[r].queue
                                   /\ x.hand = turn[r].steer /\ x.steer = Nobody
          BY <2>4, <3>2, TakeSteerFacts
        <4>. QED
          BY <3>2, <4>1, TurnsPut DEF Holding
      <3>. QED
        BY <3>1, <3>2
    <2>5. CASE TurnResults(r)
      <3>1. PICK x \in TurnRec : /\ Puts(r, x) /\ x.pc = "result" /\ x.snap = NoConv
                                 /\ x.todo = turn[r].queue /\ x.queue = <<>>
                                 /\ x.steer = turn[r].steer /\ x.hand = turn[r].hand
        BY <2>5, ResultsFacts
      <3>. QED
        BY <2>5, <3>1, TurnsPut, TurnShape DEF Holding, TurnResults
    <2>. QED
      BY <2>1, <2>2, <2>3, <2>4, <2>5
  <1>. QED
    BY <1>1, <1>2, ShapeNext

\* A step of the goroutine that only saves the conversation.
LEMMA StoringShape ==
  ASSUME Shape, NEW r \in Runs, TurnPersist(r) \/ TurnFinish(r) \/ TurnRecover(r)
  PROVE  Shape'
  <1>1. CASE \E c : Stores(r, c) /\ \E x \in TurnRec : Puts(r, x) /\ Saves(turn[r], x, c)
    BY <1>1, SavesPut, StoresRest, ShapeNext
  <1>2. CASE /\ turn[r].pc = "recover" /\ Local
             /\ \E x \in TurnRec : /\ Puts(r, x) /\ SameHands(x, turn[r])
                                   /\ x.pc = "unlock" /\ x.snap = NoConv
    <2>1. TurnsOK'
      BY <1>2, TurnsPut, TurnShape DEF SameHands, Holding
    <2>. QED
      BY <1>2, <2>1, LocalRest, ShapeNext
  <1>. QED
    BY <1>1, <1>2, PersistFacts, FinishFacts, RecoverFacts

LEMMA StrGoes ==
  ASSUME Shape, NEW s \in Steers,
         NEW pc \in {"idle", "look", "queued", "rejected", "applied", "cancelled", "lost"},
         str' = [str EXCEPT ![s].pc = pc]
  PROVE  /\ str' \in [Steers -> SteerRec]
         /\ str'[s].pc = pc /\ str'[s].run = str[s].run /\ str'[s].late = str[s].late
         /\ \A q \in Steers : q # s => str'[q] = str[q]
  <1>. DEFINE x == [str[s] EXCEPT !.pc = pc]
  <1>1. str \in [Steers -> SteerRec]
    BY RestFacts DEF RestOK
  <1>2. x \in SteerRec /\ x.pc = pc /\ x.run = str[s].run /\ x.late = str[s].late
    BY <1>1 DEF SteerRec
  <1>3. str' = [str EXCEPT ![s] = x]
    OBVIOUS
  <1>. HIDE DEF x
  <1>. QED
    BY <1>1, <1>2, <1>3

\* The rest of the state in the other steps of the goroutine.
LEMMA BoundaryShape ==
  ASSUME Shape, NEW r \in Runs, TurnComplete(r) \/ TurnDrain(r) \/ TurnSteered(r)
  PROVE  Shape'
  <1>1. CASE TurnComplete(r)
    <2>. DEFINE j == Head(turn[r].todo)
                c == Add(turn[r].snap, j)
    <2>1. PICK x \in TurnRec : /\ Puts(r, x) /\ x.pc = turn[r].pc /\ x.snap = NoConv
                               /\ x.todo = Tail(turn[r].todo) /\ x.queue = turn[r].queue
                               /\ x.steer = turn[r].steer /\ x.hand = turn[r].hand
      BY <1>1, CompleteFacts
    <2>2. TurnsOK'
      BY <2>1, TurnsPut, TurnShape DEF Holding
    <2>3. c \in Conversation
      <3>1. turn[r].todo \in Seq(Jobs) /\ turn[r].todo # <<>>
        BY <1>1, TurnShape DEF TurnRec, TurnComplete
      <3>2. j \in Facts
        BY <3>1 DEF Facts
      <3>3. turn[r].snap \in Conversation
        BY <1>1, SnapFacts DEF Shape, TurnComplete
      <3>. HIDE DEF j
      <3>. QED
        BY <3>2, <3>3, AddFacts
    <2>4. Save(turn[r].snap, c) /\ tracked' = tracked \ {j}
      BY <1>1 DEF TurnComplete
    <2>. HIDE DEF c, j
    <2>5. clash' \in BOOLEAN
      BY <2>4, ClashFacts
    <2>6. RestOK'
      BY <1>1, <2>3, <2>4, RestFacts DEF TurnComplete, Save, RestOK, Copies, NoFault, bounds, locks
    <2>. QED
      BY <2>2, <2>5, <2>6, ShapeNext
  <1>2. CASE TurnDrain(r)
    <2>. DEFINE c == DrainPendingAnnouncements(conv)
    <2>1. PICK x \in TurnRec : /\ Puts(r, x) /\ SameHands(x, turn[r]) /\ x.pc = "steer" /\ x.snap = NoConv
      BY <1>2, DrainFacts
    <2>2. TurnsOK'
      BY <1>2, <2>1, TurnsPut, TurnShape DEF Holding, SameHands, TurnDrain
    <2>3. c \in Conversation
      BY DrainedFacts, RestFacts DEF RestOK
    <2>4. Save(conv, c)
      BY <1>2 DEF TurnDrain
    <2>. HIDE DEF c
    <2>5. clash' \in BOOLEAN
      BY <2>4, ClashFacts
    <2>6. RestOK'
      BY <1>2, <2>3, <2>4, RestFacts DEF TurnDrain, Save, RestOK, Copies, NoFault, bounds, locks
    <2>. QED
      BY <2>2, <2>5, <2>6, ShapeNext
  <1>3. CASE TurnSteered(r)
    <2>. DEFINE c == Add(turn[r].snap, turn[r].hand)
    <2>1. PICK x \in TurnRec : /\ Puts(r, x) /\ x.pc = "settle" /\ x.snap = NoConv
                               /\ x.todo = turn[r].todo /\ x.queue = turn[r].queue
                               /\ x.steer = turn[r].steer /\ x.hand = Nobody
      BY <1>3, SteeredFacts
    <2>2. TurnsOK'
      BY <2>1, TurnsPut DEF Holding
    <2>3. turn[r].hand \in Steers
      BY <1>3, TurnShape DEF TurnRec, TurnSteered
    <2>4. c \in Conversation
      BY <1>3, <2>3, SnapFacts, AddFacts DEF Shape, TurnSteered, Facts
    <2>5. Save(turn[r].snap, c)
      BY <1>3 DEF TurnSteered
    <2>. HIDE DEF c
    <2>6. clash' \in BOOLEAN
      BY SMTT(60), <2>5, ClashFacts
    <2>7. str' \in [Steers -> SteerRec]
      BY Zenon, <1>3, <2>3, StrGoes DEF TurnSteered
    <2>8. RestOK'
      BY <1>3, <2>4, <2>5, <2>7, RestFacts DEF TurnSteered, Save, RestOK, Copies, NoFault, bounds, locks
    <2>. QED
      BY <2>2, <2>6, <2>8, ShapeNext
  <1>. QED
    BY <1>1, <1>2, <1>3

LEMMA CompactShape ==
  ASSUME Shape, NEW r \in Runs, TurnCompact(r)
  PROVE  Shape'
  <1>1. TurnsOK'
    BY QuietPut, CompactFacts
  <1>2. clash' \in BOOLEAN
    BY ClashFacts DEF TurnCompact, history
  <1>3. RestOK'
    BY RestFacts, TurnAssumption DEF TurnCompact, RestOK, Copies, NoFault, history, locks
  <1>. QED
    BY <1>1, <1>2, <1>3, ShapeNext

LEMMA ToolsShape ==
  ASSUME Shape, NEW r \in Runs, TurnTools(r)
  PROVE  Shape'
  <1>1. TurnsOK'
    BY QuietPut, ToolsFacts
  <1>2. clash' \in BOOLEAN
    BY ClashFacts DEF TurnTools, history
  <1>3. [pc |-> "live", snap |-> NoConv] \in JobRec
    BY DEF JobRec, Snaps
  <1>4. RestOK'
    <2>1. CASE UNCHANGED <<job, tracked>>
      BY <2>1, RestFacts DEF TurnTools, RestOK, Copies, NoFault, history, locks, bounds
    <2>2. ASSUME NEW j \in Jobs, tracked' = tracked \cup {j}, SetJobPc(j, "live", NoConv)
          PROVE  RestOK'
      BY <1>3, <2>2, RestFacts DEF TurnTools, SetJobPc, RestOK, Copies, NoFault, history, locks, bounds
    <2>. QED
      BY <2>1, <2>2 DEF TurnTools
  <1>. QED
    BY <1>1, <1>2, <1>4, ShapeNext

LEMMA EdgeShape ==
  ASSUME Shape, NEW r \in Runs,
         TurnEnter(r) \/ TurnDiscard(r) \/ TurnCleanup(r) \/ TurnUnlock(r) \/ TurnWake(r)
  PROVE  Shape'
  <1>0. r \in Wakers /\ r \in Actors
    BY DEF Wakers, Actors
  <1>1. clash' \in BOOLEAN
    BY ClashFacts DEF TurnEnter, TurnDiscard, TurnCleanup, TurnUnlock, TurnWake, history
  <1>2. CASE TurnEnter(r)
    <2>1. PICK x \in TurnRec : Puts(r, x) /\ SameHands(x, turn[r]) /\ x.pc = "stream" /\ x.snap = turn[r].snap
      BY <1>2, GotoFacts DEF Shape, TurnEnter, TurnPcs, InTurn
    <2>2. TurnsOK'
      BY <1>2, <2>1, TurnsPut, TurnShape DEF TurnEnter, SameHands, Holding, Writing
    <2>3. RestOK'
      BY <1>0, <1>2, RestFacts DEF TurnEnter, RestOK, Copies, NoFault, history, bounds
    <2>. QED
      BY <1>1, <2>2, <2>3, ShapeNext
  <1>3. CASE TurnDiscard(r)
    <2>1. PICK x \in TurnRec : /\ Puts(r, x) /\ x.snap = NoConv
                               /\ x.pc = IF turn[r].pc = "discard" THEN "decide" ELSE "cleanup"
                               /\ x.todo = turn[r].todo /\ x.queue = turn[r].queue
                               /\ x.steer = Nobody /\ x.hand = turn[r].hand
      BY <1>3, DiscardFacts
    <2>2. TurnsOK'
      BY <1>3, <2>1, TurnsPut, TurnShape DEF TurnDiscard, Holding
    <2>3. str' \in [Steers -> SteerRec]
      <3>1. turn[r].steer \in Steers \cup {Nobody}
        BY TurnShape DEF TurnRec
      <3>2. CASE turn[r].steer = Nobody
        BY SMTT(60), <1>3, <3>2, RestFacts DEF TurnDiscard, RestOK
      <3>3. CASE turn[r].steer # Nobody
        BY Zenon, <1>3, <3>1, <3>3, StrGoes DEF TurnDiscard
      <3>. QED
        BY <3>2, <3>3
    <2>4. RestOK'
      BY <1>3, <2>3, RestFacts DEF TurnDiscard, RestOK, Copies, NoFault, history, bounds, locks
    <2>. QED
      BY <1>1, <2>2, <2>4, ShapeNext
  <1>4. CASE TurnCleanup(r)
    <2>1. PICK x \in TurnRec : /\ Puts(r, x) /\ x.pc = "left" /\ x.snap = NoConv
                               /\ x.todo = turn[r].queue /\ x.queue = <<>>
                               /\ x.steer = turn[r].steer /\ x.hand = turn[r].hand
      BY <1>4, CleanupFacts
    <2>2. TurnsOK'
      BY <1>4, <2>1, TurnsPut, TurnShape DEF TurnCleanup, Holding
    <2>3. RestOK'
      BY <1>4, RestFacts DEF TurnCleanup, RestOK, Copies, NoFault, history, bounds, locks
    <2>. QED
      BY <1>1, <2>2, <2>3, ShapeNext
  <1>5. CASE TurnUnlock(r) \/ TurnWake(r)
    <2>1. PICK pc \in {"wake", "done"} : Goto(r, pc)
      BY <1>5 DEF TurnUnlock, TurnWake
    <2>2. PICK x \in TurnRec : Puts(r, x) /\ SameHands(x, turn[r]) /\ x.pc = pc /\ x.snap = turn[r].snap
      BY <2>1, GotoFacts DEF Shape, TurnPcs
    <2>3. TurnsOK'
      BY <1>5, <2>2, TurnsPut, TurnShape DEF TurnUnlock, TurnWake, SameHands, Holding, Writing
    <2>4. wake' \in [Wakers -> WakeRec]
      BY <1>0, <1>5, CallFacts DEF TurnUnlock, TurnWake
    <2>5. RestOK'
      BY <1>5, <2>4, RestFacts DEF TurnUnlock, TurnWake, RestOK, Copies, NoFault, history, bounds, locks
    <2>. QED
      BY <1>1, <2>3, <2>5, ShapeNext
  <1>. QED
    BY <1>2, <1>3, <1>4, <1>5

\* A job that is given up keeps no copy.
LEMMA LostFacts ==
  ASSUME Shape, NEW q, job' = [j \in Jobs |-> IF Holds(q, j) THEN [Idle EXCEPT !.pc = "lost"] ELSE job[j]]
  PROVE  /\ job' \in [Jobs -> JobRec]
         /\ \A j \in Jobs : job'[j] = job[j] \/ (job'[j].pc = "lost" /\ Holds(q, j))
         /\ \A j \in Jobs : Holds(q, j) => job'[j].pc = "lost"
  <1>1. [Idle EXCEPT !.pc = "lost"] \in JobRec /\ [Idle EXCEPT !.pc = "lost"].pc = "lost"
    BY DEF Idle, JobRec, Snaps
  <1>. QED
    BY <1>1, RestFacts DEF RestOK

\* The jobs after a fault or a panic of r.
LEMMA FaultJobs ==
  ASSUME Shape, NEW r \in Runs, TurnFault(r) \/ TurnPanic(r)
  PROVE  /\ job' \in [Jobs -> JobRec]
         /\ \A j \in Jobs : job'[j] = job[j] \/ job'[j].pc = "lost"
         /\ \A j \in Jobs : Holds(turn[r].todo, j) /\ job'[j].pc # "lost"
               => TurnFault(r) /\ turn[r].pc # "left"
  <1>1. CASE TurnPanic(r)
    BY <1>1, LostFacts DEF TurnPanic
  <1>2. CASE TurnFault(r) /\ turn[r].pc = "left"
    <2>1. job' = [j \in Jobs |-> IF Holds(turn[r].todo, j) THEN [Idle EXCEPT !.pc = "lost"] ELSE job[j]]
      BY <1>2 DEF TurnFault
    <2>. QED
      BY <2>1, LostFacts
  <1>3. CASE TurnFault(r) /\ turn[r].pc # "left"
    <2>1. job' = [j \in Jobs |-> job[j]]
      BY <1>3 DEF TurnFault
    <2>. QED
      BY <1>3, <2>1, RestFacts DEF RestOK
  <1>. QED
    BY <1>1, <1>2, <1>3

\* The steers after a panic of r.
LEMMA PanicSteers ==
  ASSUME Shape, NEW r \in Runs, TurnPanic(r)
  PROVE  /\ str' \in [Steers -> SteerRec]
         /\ \A s \in Steers :
               \/ str'[s] = str[s] /\ s # turn[r].hand /\ s # turn[r].steer
               \/ str'[s].pc = "lost"
               \/ str'[s].late = TRUE /\ str'[s].pc = str[s].pc /\ str'[s].run = str[s].run
  <1>1. str \in [Steers -> SteerRec]
    BY RestFacts DEF RestOK
  <1>2. \A s \in Steers : [str[s] EXCEPT !.pc = "lost"] \in SteerRec /\ [str[s] EXCEPT !.pc = "lost"].pc = "lost"
    BY <1>1 DEF SteerRec
  <1>3. \A s \in Steers : LET y == [str[s] EXCEPT !.late = TRUE]
                          IN  y \in SteerRec /\ y.late = TRUE /\ y.pc = str[s].pc /\ y.run = str[s].run
    BY Zenon, <1>1 DEF SteerRec
  <1>4. str' = [s \in Steers |-> IF s = turn[r].hand THEN [str[s] EXCEPT !.pc = "lost"]
                                ELSE IF s = turn[r].steer THEN [str[s] EXCEPT !.late = TRUE]
                                ELSE str[s]]
    BY DEF TurnPanic
  <1>. QED
    BY <1>1, <1>2, <1>3, <1>4

\* The steers after a fault of r.
LEMMA FaultSteers ==
  ASSUME Shape, NEW r \in Runs, TurnFault(r)
  PROVE  /\ str' \in [Steers -> SteerRec]
         /\ \/ str' = str /\ (turn[r].pc = "steering" => turn[r].steer = Nobody)
            \/ /\ turn[r].pc = "steering" /\ turn[r].steer # Nobody /\ turn[r].hand \in Steers
               /\ str'[turn[r].hand].pc = "lost"
               /\ \A s \in Steers : s # turn[r].hand => str'[s] = str[s]
  <1>1. CASE turn[r].pc = "steering" /\ turn[r].steer # Nobody
    <2>1. turn[r].hand \in Steers
      BY <1>1, TurnShape DEF TurnRec
    <2>2. str' = [str EXCEPT ![turn[r].hand].pc = "lost"]
      BY <1>1 DEF TurnFault
    <2>. QED
      BY <1>1, <2>1, <2>2, StrGoes
  <1>2. CASE ~(turn[r].pc = "steering" /\ turn[r].steer # Nobody)
    <2>1. str' = str
      BY <1>2 DEF TurnFault
    <2>. QED
      BY <1>2, <2>1, RestFacts DEF RestOK
  <1>. QED
    BY SMTT(60), <1>1, <1>2

LEMMA AfterFaultFacts ==
  ASSUME Shape, NEW r \in Runs, TurnFault(r)
  PROVE  LET pc == AfterFault(turn[r].pc) IN
         /\ \/ turn[r].pc \in {"boundary", "append"} /\ pc = "cleanup"
            \/ turn[r].pc = "fail" /\ pc = "failed"
            \/ turn[r].pc = "left" /\ pc = "recover"
            \/ turn[r].pc = "recover" /\ pc = "unlock"
            \/ turn[r].pc \in InTurn \ {"boundary", "append", "fail"} /\ pc = "fail"
         /\ turn[r].pc \in BeforeDiscard => pc \in BeforeDiscard
         /\ turn[r].pc \in BeforeDiscard \/ turn[r].pc \in {"boundary", "append", "left", "recover"}
  BY DEF TurnFault, AfterFault, Writing, InTurn, BeforeDiscard

LEMMA FailureShape ==
  ASSUME Shape, NEW r \in Runs, TurnFault(r) \/ TurnPanic(r)
  PROVE  Shape'
  <1>1. clash' \in BOOLEAN
    BY ClashFacts DEF TurnFault, TurnPanic, history
  <1>2. TurnsOK'
    <2>1. CASE TurnFault(r)
      <3>. DEFINE back == turn[r].pc = "steering" /\ turn[r].steer = Nobody
      <3>1. PICK x \in TurnRec : /\ Puts(r, x) /\ x.pc = AfterFault(turn[r].pc) /\ x.snap = NoConv
                                 /\ x.todo = <<>> /\ x.hand = Nobody
        BY <2>1, FaultFacts
      <3>2. x.pc # "steering"
        BY <2>1, <3>1, AfterFaultFacts
      <3>. QED
        BY <3>1, <3>2, TurnsPut DEF Holding
    <2>2. CASE TurnPanic(r)
      <3>1. PICK x \in TurnRec : /\ Puts(r, x) /\ x.pc = "cleanup" /\ x.snap = NoConv
                                 /\ x.todo = <<>> /\ x.hand = Nobody
        BY <2>2, PanicFacts
      <3>. QED
        BY <3>1, TurnsPut DEF Holding
    <2>. QED
      BY <2>1, <2>2
  <1>3. str' \in [Steers -> SteerRec]
    BY PanicSteers, FaultSteers
  <1>4. faults' \in 0..MaxFaults
    <2>1. AFault
      BY Zenon DEF TurnFault, TurnPanic
    <2>2. faults \in 0..MaxFaults
      BY RestFacts DEF RestOK
    <2>. QED
      BY <2>1, <2>2, TurnAssumption DEF AFault
  <1>5. \A j \in Jobs : job'[j].pc = "save" => job'[j].snap \in Conversation
    BY FaultJobs, RestFacts DEF RestOK, Copies
  <1>7. \A s \in Steers : str'[s].pc \in {"look", "queued"} => str'[s].run \in Runs
    <2>1. \A s \in Steers : str[s].pc \in {"look", "queued"} => str[s].run \in Runs
      BY RestFacts DEF RestOK, Copies
    <2>2. CASE TurnFault(r)
      BY <2>1, <2>2, FaultSteers
    <2>3. CASE TurnPanic(r)
      BY Zenon, <2>1, <2>3, PanicSteers
    <2>. QED
      BY <2>2, <2>3
  <1>6. RestOK'
    BY ZenonT(60), <1>3, <1>4, <1>5, <1>7, FaultJobs, RestFacts DEF TurnFault, TurnPanic, RestOK, Copies, history, bounds, locks
  <1>. QED
    BY <1>1, <1>2, <1>6, ShapeNext

LEMMA UserActsShape ==
  ASSUME Shape
  PROVE  /\ \A r \in Runs : UserStop(r) \/ CancelSteer(r) => Shape'
         /\ \A s \in Steers : SteerLook(s) \/ SteerQueue(s) => Shape'
  <1>1. ASSUME NEW r \in Runs, UserStop(r) PROVE Shape'
    <2>1. TurnsOK'
      BY <1>1, QuietPut, StopFacts
    <2>2. clash' \in BOOLEAN
      BY <1>1, ClashFacts DEF UserStop, Others, history
    <2>3. RestOK'
      BY <1>1, RestFacts, TurnAssumption DEF UserStop, Others, RestOK, Copies, NoFault, history, locks
    <2>. QED
      BY <2>1, <2>2, <2>3, ShapeNext
  <1>2. ASSUME NEW r \in Runs, CancelSteer(r) PROVE Shape'
    <2>1. PICK x \in TurnRec : /\ Puts(r, x) /\ x.pc = turn[r].pc /\ x.snap = turn[r].snap
                               /\ x.todo = turn[r].todo /\ x.queue = turn[r].queue
                               /\ x.steer = Nobody /\ x.hand = turn[r].hand
      BY <1>2, SlotFacts DEF CancelSteer
    <2>2. TurnsOK'
      BY <2>1, TurnsPut, TurnShape DEF Holding
    <2>3. clash' \in BOOLEAN
      BY SMTT(60), <1>2, ClashFacts DEF CancelSteer, Others, history
    <2>4. str' \in [Steers -> SteerRec]
      BY Zenon, <1>2, StrGoes, TurnShape DEF CancelSteer, TurnRec
    <2>5. RestOK'
      BY <1>2, <2>4, RestFacts DEF CancelSteer, Others, RestOK, Copies, NoFault, history, locks, bounds
    <2>. QED
      BY <2>2, <2>3, <2>5, ShapeNext
  <1>3. ASSUME NEW s \in Steers, SteerLook(s) PROVE Shape'
    <2>1. PICK r \in runs : str' = [str EXCEPT ![s].pc = "look", ![s].run = r]
      BY <1>3 DEF SteerLook
    <2>2. str' \in [Steers -> SteerRec]
      BY ZenonT(60), <2>1, RestFacts DEF RestOK, SteerRec
    <2>3. TurnsOK'
      BY <1>3, TurnsStay DEF SteerLook
    <2>4. clash' \in BOOLEAN
      BY <1>3, ClashFacts DEF SteerLook, Others, history
    <2>5. RestOK'
      BY <1>3, <2>2, RestFacts DEF SteerLook, Others, RestOK, Copies, NoFault, history, locks, bounds
    <2>. QED
      BY <2>3, <2>4, <2>5, ShapeNext
  <1>4. ASSUME NEW s \in Steers, SteerQueue(s) PROVE Shape'
    <2>. DEFINE r == str[s].run
    <2>1. r \in Runs
      BY <1>4, RestFacts DEF RestOK, Copies, SteerQueue
    <2>2. PICK q \in Runs : q = r
      BY <2>1
    <2>3. clash' \in BOOLEAN
      BY <1>4, ClashFacts DEF SteerQueue, Others, history
    <2>4. CASE turn[r].steer # Nobody
      <3>1. str' = [str EXCEPT ![s].pc = "rejected"] /\ turn' = turn
        BY <1>4, <2>4 DEF SteerQueue
      <3>2. RestOK'
        BY <1>4, <3>1, StrGoes, RestFacts
           DEF SteerQueue, Others, RestOK, Copies, NoFault, history, locks, bounds
      <3>. QED
        BY <2>3, <3>1, <3>2, TurnsStay, ShapeNext
    <2>5. CASE turn[r].steer = Nobody
      <3>1. turn' = [turn EXCEPT ![q].steer = s]
        BY <1>4, <2>2, <2>5 DEF SteerQueue
      <3>2. PICK x \in TurnRec : /\ Puts(q, x) /\ x.pc = turn[q].pc /\ x.snap = turn[q].snap
                                 /\ x.todo = turn[q].todo /\ x.queue = turn[q].queue
                                 /\ x.steer = s /\ x.hand = turn[q].hand
        <4>1. s \in Steers \cup {Nobody}
          OBVIOUS
        <4>. QED
          BY <3>1, <4>1, SlotFacts
      <3>3. TurnsOK'
        BY <3>2, TurnsPut, TurnShape DEF Holding
      <3>4. PICK b \in BOOLEAN : b = (turn[r].pc \notin BeforeDiscard)
        OBVIOUS
      <3>5. str' = [str EXCEPT ![s].pc = "queued", ![s].late = b]
        BY <1>4, <2>5, <3>4, Zenon DEF SteerQueue
      <3>6. /\ str' \in [Steers -> SteerRec] /\ str'[s].run = str[s].run
            /\ \A t \in Steers : t # s => str'[t] = str[t]
        <4>. DEFINE y == [str[s] EXCEPT !.pc = "queued", !.late = b]
        <4>1. str \in [Steers -> SteerRec]
          BY RestFacts DEF RestOK
        <4>2. y \in SteerRec /\ y.run = str[s].run
          BY <4>1, <3>4 DEF SteerRec
        <4>3. str' = [str EXCEPT ![s] = y]
          BY <3>5
        <4>. HIDE DEF y
        <4>. QED
          BY <4>1, <4>2, <4>3
      <3>7. RestOK'
        BY <1>4, <2>1, <3>6, RestFacts
           DEF SteerQueue, Others, RestOK, Copies, NoFault, history, locks, bounds
      <3>. QED
        BY <2>3, <3>3, <3>7, ShapeNext
    <2>. QED
      BY <2>4, <2>5
  <1>. QED
    BY <1>1, <1>2, <1>3, <1>4

\* After a restart nothing is held, nothing runs and nothing is half done.
LEMMA CrashFacts ==
  ASSUME Shape, Crash
  PROVE  /\ conv' = SetStatus(conv, "idle") /\ runs' = {}
         /\ turn' \in [Runs -> TurnRec]
         /\ \A r \in Runs : /\ turn'[r].pc \in {"new", "done"}
                            /\ turn'[r].hand = Nobody /\ turn'[r].snap = NoConv
         /\ job' \in [Jobs -> JobRec]
         /\ \A j \in Jobs : job'[j].pc \in {"idle", "done", "lost"}
         /\ \A j \in Jobs : job'[j].pc = "done" => job[j].pc = "done" /\ InLog(j)
         /\ \A p \in Wakers : wake'[p].pc = "no"
         /\ str' \in [Steers -> SteerRec]
         /\ \A s \in Steers : str'[s].pc \notin {"look", "queued"}
         /\ usr'.pc = "idle" /\ cmp'.pc = "idle"
  <1>1. NewTurn \in TurnRec /\ NewTurn.pc = "new" /\ NewTurn.hand = Nobody /\ NewTurn.snap = NoConv
    <2>1. NewTurn \in TurnRec
      <3>1. "new" \in TurnPcs /\ <<>> \in Seq(Jobs) /\ NoConv \in Snaps /\ FALSE \in BOOLEAN /\ 0 \in Nat
            /\ Nobody \in Steers \cup {Nobody}
        BY DEF TurnPcs, Snaps
      <3>. QED
        BY <3>1, Zenon DEF NewTurn, TurnRec
    <2>. QED
      BY <2>1 DEF NewTurn
  <1>. DEFINE x == [NewTurn EXCEPT !.pc = "done"]
  <1>2. x \in TurnRec /\ x.pc = "done" /\ x.hand = Nobody /\ x.snap = NoConv
    <2>1. x \in TurnRec
      <3>1. "done" \in TurnPcs
        BY DEF TurnPcs
      <3>. QED
        BY <1>1, <3>1, Zenon DEF TurnRec
    <2>. QED
      BY <1>1, <2>1 DEF TurnRec
  <1>3. turn' = [r \in Runs |-> IF turn[r].pc = "new" THEN NewTurn ELSE x]
    BY DEF Crash
  <1>. HIDE DEF x
  <1>4. /\ turn' \in [Runs -> TurnRec]
        /\ \A r \in Runs : /\ turn'[r].pc \in {"new", "done"}
                           /\ turn'[r].hand = Nobody /\ turn'[r].snap = NoConv
    BY <1>1, <1>2, <1>3
  <1>5. [Idle EXCEPT !.pc = "lost"] \in JobRec /\ [Idle EXCEPT !.pc = "lost"].pc = "lost"
    BY DEF Idle, JobRec, Snaps
  <1>6. /\ job' \in [Jobs -> JobRec]
        /\ \A j \in Jobs : job'[j].pc \in {"idle", "done", "lost"}
        /\ \A j \in Jobs : job'[j].pc = "done" => job[j].pc = "done" /\ InLog(j)
    <2>. DEFINE lost == [Idle EXCEPT !.pc = "lost"]
    <2>1. job' = [j \in Jobs |-> IF job[j].pc = "idle" \/ (job[j].pc = "done" /\ InLog(j))
                                 THEN job[j] ELSE lost]
      BY DEF Crash
    <2>2. lost \in JobRec /\ lost.pc = "lost" /\ job \in [Jobs -> JobRec]
      BY <1>5, RestFacts DEF RestOK
    <2>. HIDE DEF lost
    <2>. QED
      BY <2>1, <2>2
  <1>7. \A p \in Wakers : wake'[p].pc = "no"
    BY DEF Crash
  <1>8. str' \in [Steers -> SteerRec] /\ \A s \in Steers : str'[s].pc \notin {"look", "queued"}
    <2>1. str \in [Steers -> SteerRec]
      BY RestFacts DEF RestOK
    <2>2. \A s \in Steers : [str[s] EXCEPT !.pc = "lost"] \in SteerRec /\ [str[s] EXCEPT !.pc = "lost"].pc = "lost"
      BY <2>1 DEF SteerRec
    <2>3. str' = [s \in Steers |-> IF str[s].pc \in {"look", "queued"}
                                   THEN [str[s] EXCEPT !.pc = "lost"] ELSE str[s]]
      BY DEF Crash
    <2>. QED
      BY <2>1, <2>2, <2>3
  <1>9. usr'.pc = "idle" /\ cmp'.pc = "idle"
    BY DEF Crash, Idle
  <1>. QED
    BY <1>4, <1>6, <1>7, <1>8, <1>9 DEF Crash

LEMMA CrashShape ==
  ASSUME Shape, Crash
  PROVE  Shape'
  <1>1. TurnsOK'
    BY CrashFacts DEF TurnsOK, Hands, Snapped, Holding
  <1>2. clash' \in BOOLEAN
    BY ClashFacts DEF Crash, history
  <1>3. conv' \in Conversation
    BY CrashFacts, StatusFacts, RestFacts DEF RestOK
  <1>4. Idle \in PubRec /\ [Idle EXCEPT !.pc = "done"] \in PubRec /\ Idle \in UsrRec /\ Idle \in CmpRec
    BY DEF Idle, PubRec, UsrRec, CmpRec, Snaps
  <1>5. pub' \in [Notes -> PubRec] /\ \A n \in Notes : pub'[n].pc # "save"
    <2>1. [Idle EXCEPT !.pc = "done"].pc = "done" /\ Idle.pc = "idle"
      BY DEF Idle
    <2>. QED
      BY <1>4, <2>1 DEF Crash
  <1>6. wake' \in [Wakers -> WakeRec]
    <2>1. [pc |-> "no", peer |-> FALSE] \in WakeRec
      BY DEF WakeRec
    <2>. QED
      BY <2>1 DEF Crash
  <1>7. usr' \in UsrRec /\ cmp' \in CmpRec
    BY <1>4 DEF Crash
  <1>8. crashes' \in 0..MaxCrashes
    BY RestFacts, TurnAssumption DEF Crash, RestOK
  <1>9. RestOK'
    BY <1>3, <1>5, <1>6, <1>7, <1>8, CrashFacts, RestFacts DEF Crash, RestOK, Copies, NoFault, history
  <1>. QED
    BY <1>1, <1>2, <1>9, ShapeNext

LEMMA ShapeInit == Init => Shape
  <1>. SUFFICES ASSUME Init PROVE Shape
    OBVIOUS
  <1>1. NewTurn \in TurnRec /\ NewTurn.pc = "new" /\ NewTurn.hand = Nobody /\ NewTurn.snap = NoConv
    <2>1. NewTurn \in TurnRec
      <3>1. "new" \in TurnPcs /\ <<>> \in Seq(Jobs) /\ NoConv \in Snaps /\ FALSE \in BOOLEAN /\ 0 \in Nat
            /\ Nobody \in Steers \cup {Nobody}
        BY DEF TurnPcs, Snaps
      <3>. QED
        BY <3>1, Zenon DEF NewTurn, TurnRec
    <2>. QED
      BY <2>1 DEF NewTurn
  <1>2. TurnsOK
    BY <1>1 DEF Init, TurnsOK, Hands, Snapped, Holding
  <1>3. clash \in BOOLEAN
    <2>1. clash = FALSE
      BY DEF Init
    <2>. QED
      BY <2>1, Zenon
  <1>4. /\ Idle \in PubRec /\ Idle \in JobRec /\ Idle \in UsrRec /\ Idle \in CmpRec /\ Idle.pc = "idle"
        /\ [pc |-> "no", peer |-> FALSE] \in WakeRec
        /\ [pc |-> "idle", run |-> Nobody, late |-> FALSE] \in SteerRec
    BY DEF Idle, PubRec, JobRec, UsrRec, CmpRec, WakeRec, SteerRec, Snaps
  <1>5. conv \in Conversation
    BY DEF Init, Conversation
  <1>6. RestOK
    BY <1>4, <1>5, TurnAssumption DEF Init, RestOK, Copies
  <1>. QED
    BY <1>2, <1>3, <1>6, ShapeParts

LEMMA ShapeStep == Shape /\ [Next]_vars => Shape'
  <1>. SUFFICES ASSUME Shape, [Next]_vars PROVE Shape'
    OBVIOUS
  <1>1. ASSUME NEW r \in Runs, TurnStep(r) PROVE Shape'
    BY <1>1, MemoryShape, StoringShape, BoundaryShape, EdgeShape, ToolsShape DEF TurnStep
  <1>2. ASSUME NEW r \in Runs, TurnCompact(r) \/ AskAnswer(r) \/ TurnFault(r) \/ TurnPanic(r)
        PROVE  Shape'
    BY <1>2, CompactShape, MemoryShape, FailureShape
  <1>3. CASE UNCHANGED vars
    <2>1. TurnsOK'
      BY <1>3, TurnsStay DEF vars, goroutines
    <2>2. clash' \in BOOLEAN
      BY <1>3, ClashFacts DEF vars, history
    <2>3. RestOK'
      BY <1>3, RestFacts DEF vars, goroutines, locks, history, bounds, RestOK, Copies
    <2>. QED
      BY <2>1, <2>2, <2>3, ShapeNext
  <1>4. CASE Next
    BY <1>1, <1>2, <1>4, UserShape, WakeShape, PubShape, JobShape, UserActsShape, CmpShape, CrashShape
       DEF Next
  <1>. QED
    BY <1>3, <1>4

\* The goroutines, the locks and the stored conversation stay well formed, whoever
\* starts turns, publishes, delivers or dies (RunTurn, startIdleConversationTurn).
THEOREM TurnTypeCorrect == Spec => []TypeOK
  <1>1. Shape => TypeOK
    BY DEF Shape
  <1>. QED
    BY <1>1, ShapeInit, ShapeStep, PTL DEF Spec

-----------------------------------------------------------------------------
(* One turn at a time.                                                     *)

\* The registry has one run, the run that works, and it has the turn lock
\* while it does.
OneRun ==
    /\ \A q, r \in runs : q = r
    /\ \A r \in Runs : turn[r].pc \in Locked => turnLock = r
    /\ \A r \in Runs : turn[r].pc \in Listed => r \in runs

\* Who starts a turn has the start lock and, from the last look at the
\* registry on, finds it empty.
Starting ==
    /\ \A p \in Wakers : wake[p].pc \in {"turn", "go"} => startMu = p
    /\ \A p \in Wakers : wake[p].pc = "go" => turnLock = p /\ runs = {}
    /\ usr.pc # "idle" => startMu = User /\ runs = {}
    /\ usr.pc = "save" => turnLock = User

\* Who saves the conversation outside a turn has the turn lock.
Savers ==
    /\ \A j \in Jobs : job[j].pc = "save" => turnLock = j
    /\ cmp.pc \in {"call", "save"} => turnLock = Compactor

\* A run or a job wakes the room when it is over: it does not use its name
\* for a lock in two ways at once.
Callers ==
    /\ \A r \in Runs : wake[r].pc # "no" => turn[r].pc \in {"wake", "done"}
    /\ \A j \in Jobs : wake[j].pc # "no" => job[j].pc \in {"done", "lost"}

LockInv == OneRun /\ Starting /\ Savers /\ Callers

LEMMA Names ==
  /\ \A p \in Wakers : p # User /\ p # Compactor /\ p # Nobody
  /\ User # Compactor /\ User # Nobody /\ Compactor # Nobody
  /\ \A r \in Runs : r \in Wakers /\ r \notin Jobs /\ r \notin Notes
  /\ \A j \in Jobs : j \in Wakers /\ j \notin Runs /\ j \notin Notes
  /\ \A n \in Notes : n \in Wakers /\ n \notin Runs /\ n \notin Jobs
  /\ \A s \in Steers : s # Nobody
  BY NamesAssumption DEF Actors, Wakers

\* Steps that leave the registry, the locks and the starters alone.
LEMMA LockStays ==
  ASSUME LockInv, UNCHANGED <<runs, wake, startMu, turnLock, usr, cmp>>,
         \A r \in Runs : turn'[r].pc \in Locked => turn[r].pc \in Locked,
         \A r \in Runs : turn'[r].pc \in Listed => turn[r].pc \in Listed,
         \A r \in Runs : turn[r].pc \in {"wake", "done"} => turn'[r].pc \in {"wake", "done"},
         \A j \in Jobs : job'[j].pc = "save" => job[j].pc = "save",
         \A j \in Jobs : job[j].pc \in {"done", "lost"} => job'[j].pc \in {"done", "lost"}
  PROVE  LockInv'
  BY DEF LockInv, OneRun, Starting, Savers, Callers

\* A step of one goroutine within the part of the turn that has the lock.
LEMMA LockPut ==
  ASSUME LockInv, UNCHANGED <<runs, wake, startMu, turnLock, usr, cmp>>,
         NEW r \in Runs, NEW x, Puts(r, x),
         \/ x.pc = turn[r].pc
         \/ turn[r].pc \in InTurn /\ x.pc \in InTurn \cup {"cleanup"}
         \/ turn[r].pc \in {"left", "recover"} /\ x.pc \in {"recover", "unlock"},
         \A j \in Jobs : job'[j].pc = "save" => job[j].pc = "save",
         \A j \in Jobs : job[j].pc \in {"done", "lost"} => job'[j].pc \in {"done", "lost"}
  PROVE  LockInv'
  <1>1. /\ x.pc \in Locked => turn[r].pc \in Locked
        /\ x.pc \in Listed => turn[r].pc \in Listed
        /\ turn[r].pc \in {"wake", "done"} => x.pc \in {"wake", "done"}
    BY DEF Locked, Listed, InTurn
  <1>2. /\ \A q \in Runs : turn'[q].pc \in Locked => turn[q].pc \in Locked
        /\ \A q \in Runs : turn'[q].pc \in Listed => turn[q].pc \in Listed
        /\ \A q \in Runs : turn[q].pc \in {"wake", "done"} => turn'[q].pc \in {"wake", "done"}
    BY <1>1 DEF Puts
  <1>. QED
    BY <1>2, LockStays

LEMMA MemoryLock ==
  ASSUME Shape, LockInv, NEW r \in Runs,
         \/ TurnStream(r) \/ TurnLoad(r) \/ TurnAskEnds(r) \/ AskAnswer(r) \/ TurnResults(r)
         \/ TurnCompleted(r) \/ TurnSteer(r) \/ TurnSettle(r) \/ TurnDecide(r) \/ TurnChain(r)
  PROVE  LockInv'
  <1>1. UNCHANGED <<runs, wake, startMu, turnLock, usr, cmp, job>>
    BY DEF TurnStream, TurnLoad, TurnAskEnds, AskAnswer, TurnResults, TurnCompleted, TurnSteer,
           TurnSettle, TurnDecide, TurnChain, Local, locks
  <1>2. CASE \E x \in TurnRec : Puts(r, x) /\ Quiet(turn[r], x)
    BY <1>1, <1>2, LockPut DEF Quiet
  <1>3. CASE TurnResults(r)
    <2>1. PICK x \in TurnRec : Puts(r, x) /\ x.pc = "result"
      BY <1>3, ResultsFacts
    <2>2. turn[r].pc \in InTurn /\ x.pc \in InTurn
      BY <1>3, <2>1 DEF TurnResults, InTurn
    <2>. QED
      BY <1>1, <2>1, <2>2, LockPut
  <1>4. CASE TurnSteer(r) /\ turn[r].steer # Nobody
    <2>1. PICK x \in TurnRec : Puts(r, x) /\ x.pc = "steering"
      BY <1>4, TakeSteerFacts
    <2>2. turn[r].pc \in InTurn /\ x.pc \in InTurn
      BY <1>4, <2>1 DEF TurnSteer, InTurn
    <2>. QED
      BY <1>1, <2>1, <2>2, LockPut
  <1>. QED
    BY <1>2, <1>3, <1>4, StreamFacts, LoadFacts, AskFacts, CompletedFacts, SettleFacts, DecideFacts,
       ChainFacts, NoSteerFacts

LEMMA StoringLock ==
  ASSUME Shape, LockInv, NEW r \in Runs, TurnPersist(r) \/ TurnFinish(r) \/ TurnRecover(r)
  PROVE  LockInv'
  <1>1. CASE \E c : Stores(r, c) /\ \E x \in TurnRec : Puts(r, x) /\ Saves(turn[r], x, c)
    <2>1. PICK c : Stores(r, c) /\ \E x \in TurnRec : Puts(r, x) /\ Saves(turn[r], x, c)
      BY <1>1
    <2>2. UNCHANGED <<runs, wake, startMu, turnLock, usr, cmp, job>>
      BY <2>1 DEF Stores, locks
    <2>. QED
      BY <2>1, <2>2, LockPut DEF Saves
  <1>2. CASE /\ turn[r].pc = "recover" /\ Local
             /\ \E x \in TurnRec : Puts(r, x) /\ x.pc = "unlock"
    <2>1. UNCHANGED <<runs, wake, startMu, turnLock, usr, cmp, job>>
      BY <1>2 DEF Local, locks
    <2>. QED
      BY <1>2, <2>1, LockPut
  <1>. QED
    BY <1>1, <1>2, PersistFacts, FinishFacts, RecoverFacts

LEMMA BoundaryLock ==
  ASSUME Shape, LockInv, NEW r \in Runs,
         TurnComplete(r) \/ TurnDrain(r) \/ TurnSteered(r) \/ TurnDiscard(r)
  PROVE  LockInv'
  <1>1. UNCHANGED <<runs, wake, startMu, turnLock, usr, cmp, job>>
    BY DEF TurnComplete, TurnDrain, TurnSteered, TurnDiscard, locks
  <1>2. CASE TurnComplete(r)
    <2>1. PICK x \in TurnRec : Puts(r, x) /\ x.pc = turn[r].pc
      BY <1>2, CompleteFacts
    <2>. QED
      BY <1>1, <2>1, LockPut
  <1>3. CASE TurnDrain(r)
    <2>1. PICK x \in TurnRec : Puts(r, x) /\ x.pc = "steer"
      BY <1>3, DrainFacts
    <2>2. turn[r].pc \in InTurn /\ x.pc \in InTurn
      BY <1>3, <2>1 DEF TurnDrain, InTurn
    <2>. QED
      BY <1>1, <2>1, <2>2, LockPut
  <1>4. CASE TurnSteered(r)
    <2>1. PICK x \in TurnRec : Puts(r, x) /\ x.pc = "settle"
      BY <1>4, SteeredFacts
    <2>2. turn[r].pc \in InTurn /\ x.pc \in InTurn
      BY <1>4, <2>1 DEF TurnSteered, InTurn
    <2>. QED
      BY <1>1, <2>1, <2>2, LockPut
  <1>5. CASE TurnDiscard(r)
    <2>1. PICK x \in TurnRec : Puts(r, x) /\ (x.pc = "decide" \/ x.pc = "cleanup")
      BY <1>5, DiscardFacts
    <2>2. turn[r].pc \in InTurn /\ x.pc \in InTurn \cup {"cleanup"}
      BY <1>5, <2>1 DEF TurnDiscard, InTurn
    <2>. QED
      BY <1>1, <2>1, <2>2, LockPut
  <1>. QED
    BY <1>2, <1>3, <1>4, <1>5

LEMMA OtherTurnLock ==
  ASSUME Shape, LockInv, NEW r \in Runs,
         TurnCompact(r) \/ TurnTools(r) \/ TurnFault(r) \/ TurnPanic(r) \/ UserStop(r) \/ CancelSteer(r)
  PROVE  LockInv'
  <1>1. UNCHANGED <<runs, wake, startMu, turnLock, usr, cmp>>
    BY DEF TurnCompact, TurnTools, TurnFault, TurnPanic, UserStop, CancelSteer, Others, locks
  <1>2. CASE TurnCompact(r) \/ UserStop(r)
    <2>1. job' = job
      BY <1>2 DEF TurnCompact, UserStop, Others
    <2>. QED
      BY <1>1, <1>2, <2>1, LockPut, CompactFacts, StopFacts DEF Quiet
  <1>3. CASE TurnTools(r)
    <2>1. /\ \A j \in Jobs : job'[j].pc = "save" => job[j].pc = "save"
          /\ \A j \in Jobs : job[j].pc \in {"done", "lost"} => job'[j].pc \in {"done", "lost"}
      <3>1. CASE job' = job
        BY <3>1
      <3>2. ASSUME NEW i \in Jobs, job[i].pc = "idle", SetJobPc(i, "live", NoConv)
            PROVE  /\ \A j \in Jobs : job'[j].pc = "save" => job[j].pc = "save"
                   /\ \A j \in Jobs : job[j].pc \in {"done", "lost"} => job'[j].pc \in {"done", "lost"}
        BY <3>2, RestFacts DEF RestOK, SetJobPc
      <3>. QED
        BY <1>3, <3>1, <3>2 DEF TurnTools
    <2>. QED
      BY <1>1, <1>3, <2>1, LockPut, ToolsFacts DEF Quiet
  <1>4. CASE TurnFault(r) \/ TurnPanic(r)
    <2>1. /\ \A j \in Jobs : job'[j].pc = "save" => job[j].pc = "save"
          /\ \A j \in Jobs : job[j].pc \in {"done", "lost"} => job'[j].pc \in {"done", "lost"}
      BY <1>4, FaultJobs
    <2>2. CASE TurnFault(r)
      <3>1. PICK x \in TurnRec : Puts(r, x) /\ x.pc = AfterFault(turn[r].pc)
        BY <2>2, FaultFacts
      <3>2. \/ turn[r].pc \in InTurn /\ x.pc \in InTurn \cup {"cleanup"}
            \/ turn[r].pc \in {"left", "recover"} /\ x.pc \in {"recover", "unlock"}
        BY <2>2, <3>1, AfterFaultFacts DEF InTurn
      <3>. QED
        BY <1>1, <2>1, <3>1, <3>2, LockPut
    <2>3. CASE TurnPanic(r)
      <3>1. PICK x \in TurnRec : Puts(r, x) /\ x.pc = "cleanup"
        BY <2>3, PanicFacts
      <3>2. turn[r].pc \in InTurn /\ x.pc \in InTurn \cup {"cleanup"}
        BY <2>3, <3>1 DEF TurnPanic
      <3>. QED
        BY <1>1, <2>1, <3>1, <3>2, LockPut
    <2>. QED
      BY <1>4, <2>2, <2>3
  <1>5. CASE CancelSteer(r)
    <2>1. PICK x \in TurnRec : Puts(r, x) /\ x.pc = turn[r].pc
      BY <1>5, SlotFacts DEF CancelSteer
    <2>2. job' = job
      BY <1>5 DEF CancelSteer, Others
    <2>. QED
      BY <1>1, <2>1, <2>2, LockPut
  <1>. QED
    BY <1>2, <1>3, <1>4, <1>5

LEMMA SteerLock ==
  ASSUME Shape, LockInv, NEW s \in Steers, SteerLook(s) \/ SteerQueue(s)
  PROVE  LockInv'
  <1>1. UNCHANGED <<runs, wake, startMu, turnLock, usr, cmp, job>>
    BY DEF SteerLook, SteerQueue, Others, locks
  <1>2. CASE turn' = turn
    BY <1>1, <1>2, LockStays
  <1>3. CASE SteerQueue(s) /\ turn' # turn
    <2>1. str[s].run \in Runs
      BY <1>3, RestFacts DEF RestOK, Copies, SteerQueue
    <2>2. PICK r \in Runs : r = str[s].run
      BY <2>1
    <2>3. turn' = [turn EXCEPT ![r].steer = s] /\ s \in Steers \cup {Nobody}
      BY <1>3, <2>2 DEF SteerQueue
    <2>4. PICK x \in TurnRec : Puts(r, x) /\ x.pc = turn[r].pc
      BY ZenonT(60), <2>3, SlotFacts
    <2>. QED
      BY <1>1, <2>4, LockPut
  <1>. QED
    BY <1>2, <1>3 DEF SteerLook

LEMMA PubLock ==
  ASSUME Shape, LockInv, NEW n \in Notes, PubLoad(n) \/ PubSave(n)
  PROVE  LockInv'
  <1>1. UNCHANGED <<runs, turn, startMu, turnLock, usr, cmp, job>>
    BY DEF PubLoad, PubSave
  <1>2. CASE wake' = wake
    BY <1>1, <1>2, LockStays
  <1>3. CASE \E b \in BOOLEAN : Call(n, b)
    <2>1. /\ wake'[n].pc = "want" /\ \A q \in Wakers : q # n => wake'[q] = wake[q]
      BY <1>3, Names, CallFacts
    <2>. QED
      BY <1>1, <2>1, Names DEF LockInv, OneRun, Starting, Savers, Callers
  <1>4. CASE Call(n, NoteKind[n] = "peer")
    <2>1. PICK b \in BOOLEAN : b = (NoteKind[n] = "peer")
      OBVIOUS
    <2>2. Call(n, b)
      BY <1>4, <2>1, Zenon
    <2>. QED
      BY <1>3, <2>2
  <1>. QED
    BY <1>2, <1>4 DEF PubLoad, PubSave

LEMMA JobLock ==
  ASSUME Shape, LockInv, NEW j \in Jobs, JobDone(j) \/ JobLoad(j) \/ JobSave(j)
  PROVE  LockInv'
  <1>0. job \in [Jobs -> JobRec]
    BY RestFacts DEF RestOK
  <1>1. CASE JobDone(j)
    <2>1. UNCHANGED <<runs, wake, startMu, turnLock, usr, cmp>>
      BY <1>1 DEF JobDone, locks
    <2>2. /\ \A i \in Jobs : job'[i].pc = "save" => job[i].pc = "save"
          /\ \A i \in Jobs : job[i].pc \in {"done", "lost"} => job'[i].pc \in {"done", "lost"}
      BY <1>0, <1>1 DEF JobDone, SetJobPc
    <2>3. CASE turn' = turn
      BY <2>1, <2>2, <2>3, LockStays
    <2>4. ASSUME NEW r \in runs, turn' = [turn EXCEPT ![r].queue = Append(@, j)]
          PROVE  LockInv'
      <3>1. r \in Runs
        BY RestFacts DEF RestOK
      <3>2. PICK x \in TurnRec : Puts(r, x) /\ x.pc = turn[r].pc
        BY <2>4, <3>1, EnqueueFacts
      <3>. QED
        BY <2>1, <2>2, <3>1, <3>2, LockPut
    <2>. QED
      BY <1>1, <2>3, <2>4 DEF JobDone
  <1>2. CASE JobLoad(j)
    <2>1. UNCHANGED <<runs, turn, wake, startMu, usr, cmp>> /\ turnLock = Nobody /\ turnLock' = j
      BY <1>2 DEF JobLoad
    <2>2. /\ job'[j].pc = "save" /\ job[j].pc = "wait"
          /\ \A i \in Jobs : i # j => job'[i] = job[i]
      BY <1>0, <1>2 DEF JobLoad, SetJobPc
    <2>. QED
      BY <2>1, <2>2, Names DEF LockInv, OneRun, Starting, Savers, Callers
  <1>3. CASE JobSave(j)
    <2>1. UNCHANGED <<runs, turn, startMu, usr, cmp>> /\ turnLock' = Nobody /\ job[j].pc = "save"
      BY <1>3 DEF JobSave
    <2>2. /\ job'[j].pc \in {"done", "lost"}
          /\ \A i \in Jobs : i # j => job'[i] = job[i]
      <3>1. SetJobPc(j, "done", NoConv) \/ SetJobPc(j, "lost", NoConv)
        BY <1>3 DEF JobSave
      <3>. QED
        BY <1>0, <3>1 DEF SetJobPc
    <2>3. /\ wake'[j].pc \in {"no", "want"}
          /\ \A q \in Wakers : q # j => wake'[q] = wake[q]
      <3>1. CASE Call(j, FALSE)
        BY <3>1, Names, CallFacts
      <3>2. CASE wake' = wake
        BY <2>1, <3>2 DEF LockInv, Callers
      <3>. QED
        BY <1>3, <3>1, <3>2 DEF JobSave
    <2>4. turnLock = j
      BY <2>1 DEF LockInv, Savers
    <2>. QED
      BY <2>1, <2>2, <2>3, <2>4, Names DEF LockInv, OneRun, Starting, Savers, Callers
  <1>. QED
    BY <1>1, <1>2, <1>3

\* The step of one goroutine to pc, and nothing else of the registry.
LEMMA EdgeLock ==
  ASSUME Shape, LockInv, NEW r \in Runs, TurnEnter(r) \/ TurnCleanup(r) \/ TurnUnlock(r) \/ TurnWake(r)
  PROVE  LockInv'
  <1>1. CASE TurnEnter(r)
    <2>1. PICK x \in TurnRec : Puts(r, x) /\ x.pc = "stream"
      BY <1>1, GotoFacts DEF Shape, TurnEnter, TurnPcs, InTurn
    <2>2. /\ UNCHANGED <<runs, wake, startMu, usr, cmp, job>>
          /\ turn[r].pc = "enter" /\ turnLock = Nobody /\ turnLock' = r
      BY <1>1 DEF TurnEnter
    <2>3. OneRun'
      <3>1. r \in runs /\ r # Nobody
        BY <2>2, Names DEF LockInv, OneRun, Listed
      <3>2. \A q \in Runs : turn'[q].pc \in Locked => q = r
        BY <2>1, <2>2, Names DEF LockInv, OneRun, Puts
      <3>3. \A q \in Runs : turn'[q].pc \in Listed => q \in runs
        BY <2>1, <3>1 DEF LockInv, OneRun, Puts
      <3>. QED
        BY <2>2, <3>1, <3>2, <3>3 DEF LockInv, OneRun
    <2>4. Starting' /\ Savers'
      BY <2>2, Names DEF LockInv, Starting, Savers
    <2>5. Callers'
      BY <2>1, <2>2 DEF LockInv, Callers, Puts
    <2>. QED
      BY <2>3, <2>4, <2>5 DEF LockInv
  <1>2. CASE TurnCleanup(r)
    <2>1. PICK x \in TurnRec : Puts(r, x) /\ x.pc = "left"
      BY <1>2, CleanupFacts
    <2>2. /\ UNCHANGED <<wake, startMu, turnLock, usr, cmp, job>>
          /\ turn[r].pc = "cleanup" /\ runs' = runs \ {r}
      BY <1>2 DEF TurnCleanup, locks
    <2>3. OneRun'
      <3>1. turn[r].pc \in Locked /\ turn'[r].pc \notin Listed
        BY <2>1, <2>2 DEF Locked, Listed, InTurn, Puts
      <3>. QED
        BY <2>1, <2>2, <3>1 DEF LockInv, OneRun, Puts
    <2>4. Starting' /\ Savers'
      BY <2>2 DEF LockInv, Starting, Savers
    <2>5. Callers'
      BY <2>1, <2>2 DEF LockInv, Callers, Puts
    <2>. QED
      BY <2>3, <2>4, <2>5 DEF LockInv
  <1>3. CASE TurnUnlock(r) \/ TurnWake(r)
    <2>1. PICK pc \in {"wake", "done"} : Goto(r, pc)
      BY <1>3 DEF TurnUnlock, TurnWake
    <2>2. PICK x \in TurnRec : Puts(r, x) /\ x.pc = pc
      BY <2>1, GotoFacts DEF Shape, TurnPcs
    <2>3. wake'[r].pc = "want" /\ \A q \in Wakers : q # r => wake'[q] = wake[q]
      BY <1>3, Names, CallFacts DEF TurnUnlock, TurnWake
    <2>4. UNCHANGED <<runs, startMu, usr, cmp, job>> /\ turn[r].pc \in {"unlock", "wake"}
      BY <1>3 DEF TurnUnlock, TurnWake, locks
    <2>5. \/ turn[r].pc = "unlock" /\ turnLock' = Nobody /\ turnLock = r
          \/ turn[r].pc = "wake" /\ turnLock' = turnLock
      BY <1>3 DEF TurnUnlock, TurnWake, locks, LockInv, OneRun, Locked
    <2>6. OneRun'
      <3>1. turn'[r].pc \notin Locked /\ turn'[r].pc \notin Listed
        BY <2>2 DEF Locked, Listed, InTurn, Puts
      <3>2. \A q \in Runs : turn'[q].pc \in Locked => turnLock' = q
        BY <2>2, <2>5, <3>1 DEF LockInv, OneRun, Puts
      <3>3. \A q \in Runs : turn'[q].pc \in Listed => q \in runs
        BY <2>2, <3>1 DEF LockInv, OneRun, Puts
      <3>. QED
        BY <2>4, <3>2, <3>3 DEF LockInv, OneRun
    <2>7. Starting'
      <3>1. wake[r].pc # "go" \/ turn[r].pc = "wake"
        BY <2>4 DEF LockInv, Callers
      <3>. QED
        BY <2>3, <2>4, <2>5, <3>1, Names DEF LockInv, Starting
    <2>8. Savers'
      BY <2>4, <2>5, Names DEF LockInv, Savers
    <2>9. Callers'
      BY <2>2, <2>3, <2>4, Names DEF LockInv, Callers, Puts
    <2>. QED
      BY <2>6, <2>7, <2>8, <2>9 DEF LockInv
  <1>. QED
    BY <1>1, <1>2, <1>3

LEMMA CmpLock ==
  ASSUME Shape, LockInv, CmpStart \/ CmpLoad \/ CmpRefresh \/ CmpSave \/ CmpFault \/ CmpClear
  PROVE  LockInv'
  <1>1. UNCHANGED <<runs, turn, wake, startMu, usr, job>>
    BY DEF CmpStart, CmpLoad, CmpRefresh, CmpSave, CmpFault, CmpClear, CmpStep, locks
  <1>2. CASE turnLock' = turnLock /\ (cmp'.pc \in {"call", "save"} => cmp.pc \in {"call", "save"})
    BY <1>1, <1>2 DEF LockInv, OneRun, Starting, Savers, Callers
  <1>3. CASE turnLock = Nobody /\ turnLock' = Compactor
    BY <1>1, <1>3, Names DEF LockInv, OneRun, Starting, Savers, Callers
  <1>4. CASE turnLock = Compactor /\ turnLock' = Nobody /\ cmp'.pc = "clear"
    BY <1>1, <1>4, Names DEF LockInv, OneRun, Starting, Savers, Callers
  <1>5. CASE CmpStart
    <2>1. cmp'.pc = "turn"
      BY <1>5, RestFacts DEF CmpStart, RestOK, CmpRec
    <2>. QED
      BY <1>2, <1>5, <2>1 DEF CmpStart, locks
  <1>6. CASE CmpLoad
    BY <1>3, <1>6 DEF CmpLoad
  <1>7. CASE CmpRefresh
    BY <1>2, <1>7 DEF CmpRefresh, CmpStep
  <1>8. CASE CmpSave \/ CmpFault
    BY <1>4, <1>8 DEF CmpSave, CmpFault, CmpStep, LockInv, Savers
  <1>9. CASE CmpClear
    BY <1>2, <1>9 DEF CmpClear, CmpStep, Idle
  <1>. QED
    BY <1>5, <1>6, <1>7, <1>8, <1>9

LEMMA CrashLock ==
  ASSUME Shape, Crash
  PROVE  LockInv'
  <1>1. /\ \A r \in Runs : turn'[r].pc \notin Locked /\ turn'[r].pc \notin Listed
        /\ \A j \in Jobs : job'[j].pc # "save"
    BY CrashFacts DEF Locked, Listed, InTurn
  <1>. QED
    BY <1>1, CrashFacts, Names DEF LockInv, OneRun, Starting, Savers, Callers

\* A turn is registered while nobody has the turn lock and no other turn is.
LEMMA LaunchLock ==
  ASSUME Shape, LockInv, HasFresh, Launch, NEW p \in Wakers \cup {User}, runs = {}, turnLock = p,
         startMu = p, startMu' = Nobody, turnLock' = Nobody,
         p = User => usr'.pc = "idle" /\ wake' = wake,
         p # User => /\ usr' = usr /\ wake'[p].pc = "no"
                     /\ \A q \in Wakers : q # p => wake'[q] = wake[q],
         p \in Runs => turn[p].pc \in {"wake", "done"},
         p \in Jobs => job[p].pc \in {"done", "lost"},
         UNCHANGED <<job, cmp>>
  PROVE  LockInv'
  <1>1. PICK r \in Runs : /\ turn[r].pc = "new" /\ runs' = runs \cup {r}
                          /\ \E x \in TurnRec : Puts(r, x) /\ x.pc = "enter"
    BY LaunchFacts
  <1>2. PICK x \in TurnRec : Puts(r, x) /\ x.pc = "enter"
    BY <1>1
  <1>3. OneRun'
    <2>1. \A q \in Runs : turn[q].pc \notin Listed
      BY DEF LockInv, OneRun
    <2>2. \A q \in Runs : turn[q].pc \in Locked => q = p
      BY DEF LockInv, OneRun
    <2>3. turn'[r].pc \notin Locked
      BY <1>2 DEF Locked, InTurn, Puts
    <2>4. \A q \in Runs : turn'[q].pc \notin Locked
      <3>1. p \in Runs => turn[p].pc \notin Locked
        BY DEF Locked, InTurn
      <3>. QED
        BY <1>2, <2>2, <2>3, <3>1 DEF Puts
    <2>5. \A q \in Runs : turn'[q].pc \in Listed => q = r
      BY <1>2, <2>1 DEF Puts
    <2>. QED
      BY <1>1, <2>4, <2>5 DEF OneRun
  <1>4. Starting'
    <2>1. \A q \in Wakers : wake'[q].pc \notin {"turn", "go"}
      BY Names DEF LockInv, Starting
    <2>2. usr'.pc = "idle"
      BY Names DEF LockInv, Starting
    <2>. QED
      BY <2>1, <2>2 DEF Starting
  <1>5. Savers'
    BY Names DEF LockInv, Savers
  <1>6. Callers'
    BY <1>1, <1>2, Names DEF LockInv, Callers, Puts
  <1>. QED
    BY <1>3, <1>4, <1>5, <1>6 DEF LockInv

LEMMA UserLock ==
  ASSUME Shape, LockInv, UserStart \/ UserLoad \/ UserSave
  PROVE  LockInv'
  <1>1. CASE UserStart
    <2>1. usr'.pc = "turn"
      BY <1>1, RestFacts DEF UserStart, RestOK, UsrRec
    <2>. QED
      BY <1>1, <2>1, Names DEF UserStart, LockInv, OneRun, Starting, Savers, Callers
  <1>2. CASE UserLoad
    BY <1>2, Names DEF UserLoad, LockInv, OneRun, Starting, Savers, Callers
  <1>3. CASE UserSave
    <2>1. /\ usr'.pc = "idle" /\ usr.pc = "save" /\ runs = {} /\ startMu = User /\ turnLock = User
          /\ startMu' = Nobody /\ turnLock' = Nobody /\ UNCHANGED <<job, wake, cmp>>
      BY <1>3 DEF UserSave, Idle, LockInv, Starting
    <2>2. CASE HasFresh /\ Launch
      <3>1. User \in Wakers \cup {User} /\ User \notin Runs /\ User \notin Jobs
        BY Names
      <3>. QED
        BY <2>1, <2>2, <3>1, LaunchLock
    <2>3. CASE UNCHANGED <<runs, turn>>
      BY <2>1, <2>3, Names DEF LockInv, OneRun, Starting, Savers, Callers
    <2>. QED
      BY <1>3, <2>2, <2>3 DEF UserSave
  <1>. QED
    BY <1>1, <1>2, <1>3

LEMMA WakeLock ==
  ASSUME Shape, LockInv, NEW p \in Wakers, WakeEnter(p) \/ WakeTurn(p) \/ WakeGo(p)
  PROVE  LockInv'
  <1>1. CASE WakeEnter(p)
    <2>1. PICK pc \in {"no", "turn"} : /\ wake' = [wake EXCEPT ![p].pc = pc]
                                       /\ IF pc = "no" THEN startMu' = startMu
                                          ELSE startMu' = p /\ runs = {}
      BY <1>1 DEF WakeEnter, Return
    <2>2. wake'[p].pc = pc /\ \A q \in Wakers : q # p => wake'[q] = wake[q]
      BY <2>1, WakeGoes
    <2>3. /\ UNCHANGED <<runs, turn, job, usr, cmp, turnLock>>
          /\ wake[p].pc = "want" /\ startMu = Nobody
      BY <1>1 DEF WakeEnter
    <2>4. Starting'
      BY <2>1, <2>2, <2>3, Names DEF LockInv, Starting
    <2>5. Callers'
      BY <2>2, <2>3, Names DEF LockInv, Callers
    <2>. QED
      BY <2>3, <2>4, <2>5 DEF LockInv, OneRun, Savers
  <1>2. CASE WakeTurn(p)
    <2>1. PICK pc \in {"no", "go"} : /\ wake' = [wake EXCEPT ![p].pc = pc]
                                     /\ IF pc = "no" THEN startMu' = Nobody /\ turnLock' = turnLock
                                        ELSE startMu' = startMu /\ turnLock' = p /\ runs = {}
      BY <1>2 DEF WakeTurn, Return
    <2>2. wake'[p].pc = pc /\ \A q \in Wakers : q # p => wake'[q] = wake[q]
      BY <2>1, WakeGoes
    <2>3. /\ UNCHANGED <<runs, turn, job, usr, cmp>>
          /\ wake[p].pc = "turn" /\ turnLock = Nobody /\ startMu = p
      BY <1>2 DEF WakeTurn, LockInv, Starting
    <2>4. OneRun'
      BY <2>1, <2>3, Names DEF LockInv, OneRun
    <2>5. Starting'
      BY <2>1, <2>2, <2>3, Names DEF LockInv, Starting
    <2>6. Savers'
      BY <2>1, <2>3, Names DEF LockInv, Savers
    <2>7. Callers'
      BY <2>2, <2>3, Names DEF LockInv, Callers
    <2>. QED
      BY <2>4, <2>5, <2>6, <2>7 DEF LockInv
  <1>3. CASE WakeGo(p)
    <2>1. wake'[p].pc = "no" /\ \A q \in Wakers : q # p => wake'[q] = wake[q]
      BY <1>3, WakeGoes DEF WakeGo, Return
    <2>2. /\ wake[p].pc = "go" /\ runs = {} /\ startMu = p /\ turnLock = p
          /\ startMu' = Nobody /\ turnLock' = Nobody /\ UNCHANGED <<job, usr, cmp>>
      BY <1>3 DEF WakeGo, LockInv, Starting
    <2>3. /\ p \in Runs => turn[p].pc \in {"wake", "done"}
          /\ p \in Jobs => job[p].pc \in {"done", "lost"}
      BY <2>2 DEF LockInv, Callers
    <2>4. CASE HasFresh /\ Launch
      <3>1. p \in Wakers \cup {User} /\ p # User
        BY Names
      <3>. QED
        BY <2>1, <2>2, <2>3, <2>4, <3>1, LaunchLock
    <2>5. CASE UNCHANGED <<runs, turn>>
      <3>1. OneRun'
        <4>1. \A q \in Runs : turn[q].pc \in Locked => q = p
          BY <2>2 DEF LockInv, OneRun
        <4>2. p \in Runs => turn[p].pc \notin Locked
          BY <2>3 DEF Locked, InTurn
        <4>. QED
          BY <2>5, <4>1, <4>2 DEF LockInv, OneRun
      <3>2. Starting'
        BY <2>1, <2>2, <2>5, Names DEF LockInv, Starting
      <3>3. Savers'
        BY <2>2, <2>3, Names DEF LockInv, Savers
      <3>4. Callers'
        BY <2>1, <2>2, <2>5, Names DEF LockInv, Callers
      <3>. QED
        BY <3>1, <3>2, <3>3, <3>4 DEF LockInv
    <2>. QED
      BY <1>3, <2>4, <2>5 DEF WakeGo
  <1>. QED
    BY <1>1, <1>2, <1>3

LEMMA LockInit == Init => LockInv
  BY DEF Init, LockInv, OneRun, Starting, Savers, Callers, Locked, Listed, InTurn, NewTurn, Idle, Wakers

LEMMA LockStep == Shape /\ LockInv /\ [Next]_vars => LockInv'
  <1>. SUFFICES ASSUME Shape, LockInv, [Next]_vars PROVE LockInv'
    OBVIOUS
  <1>1. ASSUME NEW r \in Runs, TurnStep(r) PROVE LockInv'
    BY <1>1, MemoryLock, StoringLock, BoundaryLock, EdgeLock, OtherTurnLock DEF TurnStep
  <1>2. ASSUME NEW r \in Runs,
               \/ TurnCompact(r) \/ AskAnswer(r) \/ TurnFault(r) \/ TurnPanic(r)
               \/ UserStop(r) \/ CancelSteer(r)
        PROVE  LockInv'
    BY <1>2, MemoryLock, OtherTurnLock
  <1>3. CASE UNCHANGED vars
    BY <1>3, LockStays DEF vars, goroutines, locks
  <1>4. CASE Next
    BY <1>1, <1>2, <1>4, UserLock, WakeLock, PubLock, JobLock, SteerLock, CmpLock, CrashLock DEF Next
  <1>. QED
    BY <1>3, <1>4

\* One turn at a time works on the room: HandleTurnsStart and the wakes look at
\* the registry under the start lock and register the run under both locks.
THEOREM OneTurnAlways == Spec => []OneTurn
  <1>1. LockInv => OneTurn
    BY DEF LockInv, OneRun, OneTurn, Listed
  <1>. QED
    BY <1>1, ShapeInit, ShapeStep, LockInit, LockStep, PTL DEF Spec

-----------------------------------------------------------------------------
(* Steers.                                                                 *)

\* A steer queued before the last discard of its turn is in the slot of the
\* turn, or in its hands, as long as that discard is to come.
Awaits(s) ==
    LET t == turn[str[s].run]
    IN  str[s].pc = "queued" /\ ~str[s].late => t.pc \in BeforeDiscard /\ s \in {t.steer, t.hand}

SteerInv == \A s \in Steers : Awaits(s)

LEMMA SteerRuns ==
  ASSUME Shape
  PROVE  \A s \in Steers : str[s].pc = "queued" => str[s].run \in Runs
  BY RestFacts DEF RestOK, Copies

LEMMA SteerStays ==
  ASSUME Shape, SteerInv, turn' = turn, str' = str
  PROVE  SteerInv'
  BY DEF SteerInv, Awaits

\* The goroutine of r goes on with the steers it has.
LEMMA SteerPut ==
  ASSUME Shape, SteerInv, str' = str, NEW r \in Runs, NEW x, Puts(r, x),
         turn[r].pc \in BeforeDiscard => /\ x.pc \in BeforeDiscard
                                         /\ {turn[r].steer, turn[r].hand} \ {Nobody} \subseteq {x.steer, x.hand}
  PROVE  SteerInv'
  BY SteerRuns, Names DEF SteerInv, Awaits, Puts

LEMMA MemorySteer ==
  ASSUME Shape, SteerInv, NEW r \in Runs,
         \/ TurnStream(r) \/ TurnLoad(r) \/ TurnAskEnds(r) \/ AskAnswer(r) \/ TurnResults(r)
         \/ TurnCompleted(r) \/ TurnSteer(r) \/ TurnSettle(r) \/ TurnDecide(r) \/ TurnChain(r)
         \/ TurnCompact(r) \/ TurnTools(r) \/ UserStop(r)
  PROVE  SteerInv'
  <1>1. str' = str
    BY DEF TurnStream, TurnLoad, TurnAskEnds, AskAnswer, TurnResults, TurnCompleted, TurnSteer,
           TurnSettle, TurnDecide, TurnChain, TurnCompact, TurnTools, UserStop, Local
  <1>2. CASE \E x \in TurnRec : Puts(r, x) /\ Quiet(turn[r], x)
    BY <1>1, <1>2, SteerPut DEF Quiet, SameHands
  <1>3. CASE TurnResults(r)
    <2>1. PICK x \in TurnRec : /\ Puts(r, x) /\ x.pc = "result"
                               /\ x.steer = turn[r].steer /\ x.hand = turn[r].hand
      BY <1>3, ResultsFacts
    <2>2. x.pc \in BeforeDiscard
      BY <2>1 DEF BeforeDiscard
    <2>. QED
      BY <1>1, <2>1, <2>2, SteerPut
  <1>4. CASE TurnSteer(r) /\ turn[r].steer # Nobody
    <2>1. PICK x \in TurnRec : /\ Puts(r, x) /\ x.pc = "steering"
                               /\ x.hand = turn[r].steer /\ x.steer = Nobody
      BY <1>4, TakeSteerFacts
    <2>2. x.pc \in BeforeDiscard
      BY <2>1 DEF BeforeDiscard
    <2>3. turn[r].hand = Nobody
      BY <1>4, TurnShape DEF TurnSteer
    <2>. QED
      BY <1>1, <2>1, <2>2, <2>3, SteerPut
  <1>. QED
    BY <1>2, <1>3, <1>4, StreamFacts, LoadFacts, AskFacts, CompletedFacts, SettleFacts, DecideFacts,
       ChainFacts, NoSteerFacts, CompactFacts, ToolsFacts, StopFacts

LEMMA StoringSteer ==
  ASSUME Shape, SteerInv, NEW r \in Runs, TurnPersist(r) \/ TurnFinish(r) \/ TurnRecover(r)
  PROVE  SteerInv'
  <1>1. CASE \E c : Stores(r, c) /\ \E x \in TurnRec : Puts(r, x) /\ Saves(turn[r], x, c)
    <2>1. PICK c : Stores(r, c) /\ \E x \in TurnRec : Puts(r, x) /\ Saves(turn[r], x, c)
      BY <1>1
    <2>2. str' = str
      BY <2>1 DEF Stores
    <2>. QED
      BY <2>1, <2>2, SteerPut DEF Saves, SameHands
  <1>2. CASE /\ turn[r].pc = "recover" /\ Local
             /\ \E x \in TurnRec : Puts(r, x) /\ x.pc = "unlock"
    <2>1. str' = str /\ turn[r].pc \notin BeforeDiscard
      BY <1>2 DEF Local, BeforeDiscard
    <2>. QED
      BY <1>2, <2>1, SteerPut
  <1>. QED
    BY <1>1, <1>2, PersistFacts, FinishFacts, RecoverFacts

LEMMA BoundarySteer ==
  ASSUME Shape, SteerInv, NEW r \in Runs, TurnComplete(r) \/ TurnDrain(r) \/ TurnSteered(r) \/ TurnDiscard(r)
  PROVE  SteerInv'
  <1>1. CASE TurnComplete(r)
    <2>1. PICK x \in TurnRec : /\ Puts(r, x) /\ x.pc = turn[r].pc
                               /\ x.steer = turn[r].steer /\ x.hand = turn[r].hand
      BY <1>1, CompleteFacts
    <2>. QED
      BY <1>1, <2>1, SteerPut DEF TurnComplete
  <1>2. CASE TurnDrain(r)
    <2>1. PICK x \in TurnRec : Puts(r, x) /\ SameHands(x, turn[r]) /\ x.pc = "steer"
      BY <1>2, DrainFacts
    <2>2. x.pc \in BeforeDiscard
      BY <2>1 DEF BeforeDiscard
    <2>. QED
      BY <1>2, <2>1, <2>2, SteerPut DEF TurnDrain, SameHands
  <1>3. CASE TurnSteered(r)
    <2>1. PICK x \in TurnRec : /\ Puts(r, x) /\ x.pc = "settle"
                               /\ x.steer = turn[r].steer /\ x.hand = Nobody
      BY <1>3, SteeredFacts
    <2>2. turn[r].hand \in Steers
      BY SMTT(60), <1>3, TurnShape DEF TurnRec, TurnSteered
    <2>3. /\ str'[turn[r].hand].pc = "applied"
          /\ \A q \in Steers : q # turn[r].hand => str'[q] = str[q]
      BY Zenon, <1>3, <2>2, StrGoes DEF TurnSteered
    <2>4. x.pc \in BeforeDiscard
      BY <2>1 DEF BeforeDiscard
    <2>. QED
      BY <2>1, <2>2, <2>3, <2>4, SteerRuns DEF SteerInv, Awaits, Puts
  <1>4. CASE TurnDiscard(r)
    <2>1. PICK x \in TurnRec : Puts(r, x)
      BY <1>4, DiscardFacts
    <2>2. turn[r].hand = Nobody
      BY <1>4, TurnShape DEF TurnDiscard
    <2>3. CASE turn[r].steer = Nobody
      <3>1. str' = str
        BY <1>4, <2>3 DEF TurnDiscard
      <3>2. \A s \in Steers : str[s].pc = "queued" /\ str[s].run = r => str[s].late = TRUE
        BY <2>2, <2>3, Names, RestFacts DEF SteerInv, Awaits, RestOK, SteerRec
      <3>. QED
        BY <2>1, <3>1, <3>2, SteerRuns DEF SteerInv, Awaits, Puts
    <2>4. CASE turn[r].steer # Nobody
      <3>1. turn[r].steer \in Steers
        BY SMTT(60), <2>4, TurnShape DEF TurnRec
      <3>2. /\ str'[turn[r].steer].pc = "cancelled"
            /\ \A q \in Steers : q # turn[r].steer => str'[q] = str[q]
        BY Zenon, <1>4, <2>4, <3>1, StrGoes DEF TurnDiscard
      <3>3. \A s \in Steers : s # turn[r].steer /\ str[s].pc = "queued" /\ str[s].run = r => str[s].late = TRUE
        BY <2>2, Names, RestFacts DEF SteerInv, Awaits, RestOK, SteerRec
      <3>. QED
        BY <2>1, <3>1, <3>2, <3>3, SteerRuns DEF SteerInv, Awaits, Puts
    <2>. QED
      BY <2>3, <2>4
  <1>. QED
    BY <1>1, <1>2, <1>3, <1>4

LEMMA EdgeSteer ==
  ASSUME Shape, SteerInv, NEW r \in Runs, TurnEnter(r) \/ TurnCleanup(r) \/ TurnUnlock(r) \/ TurnWake(r)
  PROVE  SteerInv'
  <1>1. str' = str
    BY DEF TurnEnter, TurnCleanup, TurnUnlock, TurnWake
  <1>2. CASE TurnEnter(r)
    <2>1. PICK x \in TurnRec : Puts(r, x) /\ SameHands(x, turn[r]) /\ x.pc = "stream"
      BY <1>2, GotoFacts DEF Shape, TurnEnter, TurnPcs, InTurn
    <2>2. x.pc \in BeforeDiscard
      BY <2>1 DEF BeforeDiscard
    <2>. QED
      BY <1>1, <2>1, <2>2, SteerPut DEF SameHands
  <1>3. CASE TurnCleanup(r)
    <2>1. turn[r].pc \notin BeforeDiscard
      BY <1>3 DEF TurnCleanup, BeforeDiscard
    <2>. QED
      BY <1>1, <1>3, <2>1, CleanupFacts, SteerPut
  <1>4. CASE TurnUnlock(r) \/ TurnWake(r)
    <2>1. PICK pc \in {"wake", "done"} : Goto(r, pc)
      BY <1>4 DEF TurnUnlock, TurnWake
    <2>2. PICK x \in TurnRec : Puts(r, x)
      BY <2>1, GotoFacts DEF Shape, TurnPcs
    <2>3. turn[r].pc \notin BeforeDiscard
      BY <1>4 DEF TurnUnlock, TurnWake, BeforeDiscard
    <2>. QED
      BY <1>1, <2>2, <2>3, SteerPut
  <1>. QED
    BY <1>2, <1>3, <1>4

LEMMA FailureSteer ==
  ASSUME Shape, SteerInv, NEW r \in Runs, TurnFault(r) \/ TurnPanic(r)
  PROVE  SteerInv'
  <1>1. CASE TurnFault(r)
    <2>. DEFINE back == turn[r].pc = "steering" /\ turn[r].steer = Nobody
    <2>1. PICK x \in TurnRec : /\ Puts(r, x) /\ x.pc = AfterFault(turn[r].pc) /\ x.hand = Nobody
                               /\ x.steer = IF back THEN turn[r].hand ELSE turn[r].steer
      BY <1>1, FaultFacts
    <2>2. turn[r].pc \in BeforeDiscard => x.pc \in BeforeDiscard
      BY <1>1, <2>1, AfterFaultFacts
    <2>3. turn[r].pc # "steering" => turn[r].hand = Nobody
      BY TurnShape
    <2>4. CASE str' = str /\ (turn[r].pc = "steering" => turn[r].steer = Nobody)
      BY <2>1, <2>2, <2>3, <2>4, SteerPut
    <2>5. CASE /\ turn[r].pc = "steering" /\ turn[r].steer # Nobody /\ turn[r].hand \in Steers
               /\ str'[turn[r].hand].pc = "lost"
               /\ \A s \in Steers : s # turn[r].hand => str'[s] = str[s]
      BY <2>1, <2>2, <2>5, SteerRuns DEF SteerInv, Awaits, Puts
    <2>. QED
      BY <1>1, <2>4, <2>5, FaultSteers
  <1>2. CASE TurnPanic(r)
    <2>1. PICK x \in TurnRec : Puts(r, x)
      BY <1>2, PanicFacts
    <2>2. ASSUME NEW s \in Steers, str'[s].pc = "queued", ~str'[s].late
          PROVE  /\ str'[s] = str[s] /\ str[s].run \in Runs
                 /\ str[s].run # r
    <3>1. str'[s] = str[s] /\ s # turn[r].hand /\ s # turn[r].steer
      BY <1>2, <2>2, PanicSteers
    <3>. QED
      BY <2>2, <3>1, SteerRuns DEF SteerInv, Awaits
    <2>. QED
      BY <2>1, <2>2 DEF SteerInv, Awaits, Puts
  <1>. QED
    BY <1>1, <1>2

LEMMA SlotSteer ==
  ASSUME Shape, SteerInv
  PROVE  /\ \A r \in Runs : CancelSteer(r) => SteerInv'
         /\ \A s \in Steers : SteerLook(s) \/ SteerQueue(s) => SteerInv'
  <1>1. ASSUME NEW r \in Runs, CancelSteer(r) PROVE SteerInv'
    <2>1. PICK x \in TurnRec : /\ Puts(r, x) /\ x.pc = turn[r].pc
                               /\ x.steer = Nobody /\ x.hand = turn[r].hand
      BY ZenonT(60), <1>1, SlotFacts DEF CancelSteer
    <2>2. turn[r].steer \in Steers
      BY <1>1, TurnShape DEF TurnRec, CancelSteer
    <2>3. /\ str'[turn[r].steer].pc = "cancelled"
          /\ \A q \in Steers : q # turn[r].steer => str'[q] = str[q]
      BY Zenon, <1>1, <2>2, StrGoes DEF CancelSteer
    <2>. QED
      BY <2>1, <2>2, <2>3, SteerRuns DEF SteerInv, Awaits, Puts
  <1>2. ASSUME NEW s \in Steers, SteerLook(s) PROVE SteerInv'
    <2>1. PICK r \in runs : str' = [str EXCEPT ![s].pc = "look", ![s].run = r]
      BY <1>2 DEF SteerLook
    <2>2. str'[s].pc = "look" /\ \A q \in Steers : q # s => str'[q] = str[q]
      BY <2>1, RestFacts DEF RestOK, SteerRec
    <2>3. turn' = turn
      BY <1>2 DEF SteerLook
    <2>. QED
      BY <2>2, <2>3 DEF SteerInv, Awaits
  <1>3. ASSUME NEW s \in Steers, SteerQueue(s) PROVE SteerInv'
    <2>1. str[s].run \in Runs
      BY <1>3, RestFacts DEF RestOK, Copies, SteerQueue
    <2>2. PICK r \in Runs : r = str[s].run
      BY <2>1
    <2>3. CASE turn[r].steer # Nobody
      <3>1. str' = [str EXCEPT ![s].pc = "rejected"] /\ turn' = turn
        BY <1>3, <2>2, <2>3 DEF SteerQueue
      <3>2. str'[s].pc = "rejected" /\ \A q \in Steers : q # s => str'[q] = str[q]
        BY <3>1, StrGoes
      <3>. QED
        BY <3>1, <3>2 DEF SteerInv, Awaits
    <2>4. CASE turn[r].steer = Nobody
      <3>1. turn' = [turn EXCEPT ![r].steer = s] /\ s \in Steers \cup {Nobody}
        BY <1>3, <2>2, <2>4 DEF SteerQueue
      <3>2. PICK x \in TurnRec : /\ Puts(r, x) /\ x.pc = turn[r].pc
                                 /\ x.steer = s /\ x.hand = turn[r].hand
        BY ZenonT(60), <3>1, SlotFacts
      <3>3. PICK b \in BOOLEAN : b = (turn[r].pc \notin BeforeDiscard)
        OBVIOUS
      <3>4. str' = [str EXCEPT ![s].pc = "queued", ![s].late = b]
        BY <1>3, <2>2, <2>4, <3>3, Zenon DEF SteerQueue
      <3>5. /\ str'[s].run = r /\ str'[s].late = b
            /\ \A t \in Steers : t # s => str'[t] = str[t]
        <4>. DEFINE y == [str[s] EXCEPT !.pc = "queued", !.late = b]
        <4>1. str \in [Steers -> SteerRec]
          BY RestFacts DEF RestOK
        <4>2. y.run = str[s].run /\ y.late = b
          BY <4>1 DEF SteerRec
        <4>3. str' = [str EXCEPT ![s] = y]
          BY <3>4
        <4>. HIDE DEF y
        <4>. QED
          BY <2>2, <4>1, <4>2, <4>3
      <3>6. ASSUME NEW t \in Steers, t # s, str'[t].pc = "queued", ~str'[t].late
            PROVE  turn'[str'[t].run].pc \in BeforeDiscard
                   /\ t \in {turn'[str'[t].run].steer, turn'[str'[t].run].hand}
        BY <2>4, <3>2, <3>5, <3>6, SteerRuns, Names DEF SteerInv, Awaits, Puts
      <3>7. ~b => turn'[r].pc \in BeforeDiscard /\ s \in {turn'[r].steer, turn'[r].hand}
        <4>1. ~b => turn[r].pc \in BeforeDiscard
          BY <3>3
        <4>. QED
          BY <3>2, <4>1 DEF Puts
      <3>. QED
        BY <3>5, <3>6, <3>7 DEF SteerInv, Awaits
    <2>. QED
      BY <2>3, <2>4
  <1>. QED
    BY <1>1, <1>2, <1>3

\* The other goroutines queue results and register runs; a new run has no steer.
LEMMA OutsideSteer ==
  ASSUME Shape, SteerInv,
         \/ UserStart \/ UserLoad \/ UserSave
         \/ \E p \in Wakers : WakeEnter(p) \/ WakeTurn(p) \/ WakeGo(p)
         \/ \E n \in Notes : PubLoad(n) \/ PubSave(n)
         \/ \E j \in Jobs : JobDone(j) \/ JobLoad(j) \/ JobSave(j)
         \/ CmpStart \/ CmpLoad \/ CmpRefresh \/ CmpSave \/ CmpFault \/ CmpClear
  PROVE  SteerInv'
  <1>1. str' = str
    BY DEF UserStart, UserLoad, UserSave, WakeEnter, WakeTurn, WakeGo, PubLoad, PubSave, JobDone,
           JobLoad, JobSave, CmpStart, CmpLoad, CmpRefresh, CmpSave, CmpFault, CmpClear, CmpStep
  <1>2. CASE turn' = turn
    BY <1>1, <1>2, SteerStays
  <1>3. CASE HasFresh /\ Launch
    <2>1. PICK r \in Runs : turn[r].pc = "new" /\ \E x \in TurnRec : Puts(r, x)
      BY <1>3, LaunchFacts
    <2>2. turn[r].pc \notin BeforeDiscard
      BY <2>1 DEF BeforeDiscard
    <2>. QED
      BY <1>1, <2>1, <2>2, SteerPut
  <1>4. ASSUME NEW j \in Jobs, NEW r \in runs, turn' = [turn EXCEPT ![r].queue = Append(@, j)]
        PROVE  SteerInv'
    <2>1. r \in Runs
      BY RestFacts DEF RestOK
    <2>2. PICK x \in TurnRec : /\ Puts(r, x) /\ x.pc = turn[r].pc
                               /\ x.steer = turn[r].steer /\ x.hand = turn[r].hand
      BY <1>4, <2>1, EnqueueFacts
    <2>. QED
      BY <1>1, <2>1, <2>2, SteerPut
  <1>. QED
    BY <1>2, <1>3, <1>4
       DEF UserStart, UserLoad, UserSave, WakeEnter, WakeTurn, WakeGo, PubLoad, PubSave, JobDone,
           JobLoad, JobSave, CmpStart, CmpLoad, CmpRefresh, CmpSave, CmpFault, CmpClear, CmpStep

LEMMA SteerInit == Init => SteerInv
  BY DEF Init, SteerInv, Awaits

LEMMA SteerStep == Shape /\ SteerInv /\ [Next]_vars => SteerInv'
  <1>. SUFFICES ASSUME Shape, SteerInv, [Next]_vars PROVE SteerInv'
    OBVIOUS
  <1>1. ASSUME NEW r \in Runs, TurnStep(r) PROVE SteerInv'
    BY <1>1, MemorySteer, StoringSteer, BoundarySteer, EdgeSteer DEF TurnStep
  <1>2. ASSUME NEW r \in Runs,
               \/ TurnCompact(r) \/ AskAnswer(r) \/ TurnFault(r) \/ TurnPanic(r)
               \/ UserStop(r) \/ CancelSteer(r)
        PROVE  SteerInv'
    BY <1>2, MemorySteer, FailureSteer, SlotSteer
  <1>3. CASE UNCHANGED vars
    BY <1>3, SteerStays DEF vars, goroutines
  <1>4. CASE Crash
    BY <1>4, CrashFacts DEF SteerInv, Awaits
  <1>5. CASE Next
    BY <1>1, <1>2, <1>4, <1>5, OutsideSteer, SlotSteer DEF Next
  <1>. QED
    BY <1>3, <1>5

\* A steer accepted before the last discard of its turn is applied, cancelled or
\* reported lost by the time the turn is over (ApplyQueuedSteer, discardQueuedSteer).
THEOREM SteersSettled == Spec => []SteerSettled
  <1>1. SteerInv => SteerSettled
    BY DEF SteerInv, Awaits, SteerSettled, BeforeDiscard
  <1>. QED
    BY <1>1, ShapeInit, ShapeStep, SteerInit, SteerStep, PTL DEF Spec

-----------------------------------------------------------------------------
(* The room is released.                                                   *)

\* A stale save or a second failure: then the room may be left running.
Harm == clash \/ faults > 1

Owner == Listed \cup {"left", "recover"}

\* A running room has a turn that will release it; from the turn's last save
\* on it is idle, unless that save failed; and the copy that recovery works on
\* has the status of the room.
Owned == conv.status = "running" => \E r \in Runs : turn[r].pc \in Owner
Released == \A r \in Runs : turn[r].pc \in Over /\ conv.status = "running" => faults > 0
Recovering == \A r \in Runs : turn[r].pc = "recover" /\ turn[r].snap # NoConv
                                 => turn[r].snap.status = conv.status

RoomOK == Owned /\ Released /\ Recovering

RoomInv == Harm \/ RoomOK

LEMMA RoomNumbers ==
  ASSUME Shape
  PROVE  faults \in Nat /\ conv \in Conversation
  BY RestFacts, TurnAssumption DEF RestOK

\* Steps that leave the room and its turns alone.
LEMMA RoomStays ==
  ASSUME RoomOK, turn' = turn, conv'.status = conv.status, faults' >= faults, faults \in Nat, faults' \in Nat
  PROVE  RoomOK'
  BY DEF RoomOK, Owned, Released, Recovering

\* A step of one goroutine that keeps the status.
LEMMA RoomPut ==
  ASSUME RoomOK, conv'.status = conv.status, faults \in Nat, faults' \in Nat, faults' >= faults,
         NEW r \in Runs, NEW x, Puts(r, x),
         turn[r].pc \in Owner => x.pc \in Owner \/ conv.status # "running",
         x.pc \in Over => turn[r].pc \in Over \/ faults' > 0 \/ conv.status # "running",
         x.pc = "recover" /\ x.snap # NoConv => x.snap.status = conv.status
  PROVE  RoomOK'
  <1>1. Owned'
    BY DEF RoomOK, Owned, Puts
  <1>2. Released'
    BY DEF RoomOK, Released, Puts
  <1>3. Recovering'
    BY DEF RoomOK, Recovering, Puts
  <1>. QED
    BY <1>1, <1>2, <1>3 DEF RoomOK

\* A step of one goroutine that releases the room.
LEMMA RoomIdle ==
  ASSUME LockInv, conv'.status = "idle", NEW r \in Runs, NEW x, Puts(r, x), x.snap = NoConv,
         turn[r].pc \in Locked
  PROVE  RoomOK'
  <1>1. Owned' /\ Released'
    BY DEF Owned, Released
  <1>2. \A q \in Runs : turn[q].pc = "recover" => q = r
    BY DEF LockInv, OneRun, Locked
  <1>3. Recovering'
    BY <1>2 DEF Recovering, Puts
  <1>. QED
    BY <1>1, <1>3 DEF RoomOK

LEMMA QuietRoom ==
  ASSUME Shape, RoomOK, NEW r \in Runs, \E x \in TurnRec : Puts(r, x) /\ Quiet(turn[r], x),
         conv' = conv, faults' = faults
  PROVE  RoomOK'
  <1>1. PICK x \in TurnRec : Puts(r, x) /\ Quiet(turn[r], x)
    OBVIOUS
  <1>2. turn[r].pc \in Owner => x.pc \in Owner
    BY <1>1 DEF Quiet, Owner, Listed, InTurn
  <1>3. x.pc \in Over => turn[r].pc \in Over
    BY <1>1 DEF Quiet
  <1>4. x.pc = "recover" /\ x.snap # NoConv => x.snap.status = conv.status
    BY <1>1 DEF Quiet, RoomOK, Recovering
  <1>. QED
    BY <1>1, <1>2, <1>3, <1>4, RoomPut, RoomNumbers

LEMMA MemoryRoom ==
  ASSUME Shape, RoomOK, NEW r \in Runs,
         \/ TurnStream(r) \/ TurnLoad(r) \/ TurnAskEnds(r) \/ AskAnswer(r) \/ TurnResults(r)
         \/ TurnCompleted(r) \/ TurnSteer(r) \/ TurnSettle(r) \/ TurnDecide(r) \/ TurnChain(r)
         \/ TurnCompact(r) \/ TurnTools(r) \/ UserStop(r)
  PROVE  RoomOK'
  <1>1. conv' = conv /\ faults' = faults
    BY DEF TurnStream, TurnLoad, TurnAskEnds, AskAnswer, TurnResults, TurnCompleted, TurnSteer,
           TurnSettle, TurnDecide, TurnChain, TurnCompact, TurnTools, UserStop, Local, NoFault, Others
  <1>2. CASE \E x \in TurnRec : Puts(r, x) /\ Quiet(turn[r], x)
    BY <1>1, <1>2, QuietRoom
  <1>3. CASE TurnResults(r)
    <2>1. PICK x \in TurnRec : Puts(r, x) /\ x.pc = "result"
      BY <1>3, ResultsFacts
    <2>2. x.pc \in Owner /\ x.pc \notin Over
      BY <2>1 DEF Owner, Listed, InTurn, Over
    <2>. QED
      BY <1>1, <2>1, <2>2, RoomPut, RoomNumbers
  <1>4. CASE TurnSteer(r) /\ turn[r].steer # Nobody
    <2>1. PICK x \in TurnRec : Puts(r, x) /\ x.pc = "steering"
      BY <1>4, TakeSteerFacts
    <2>2. x.pc \in Owner /\ x.pc \notin Over
      BY <2>1 DEF Owner, Listed, InTurn, Over
    <2>. QED
      BY <1>1, <2>1, <2>2, RoomPut, RoomNumbers
  <1>. QED
    BY <1>2, <1>3, <1>4, StreamFacts, LoadFacts, AskFacts, CompletedFacts, SettleFacts, DecideFacts,
       ChainFacts, NoSteerFacts, CompactFacts, ToolsFacts, StopFacts

\* What was saved was the change of a fresh copy, unless there is harm.
LEMMA FreshCopy ==
  ASSUME NEW snap, NEW c, Save(snap, c), ~clash'
  PROVE  snap = conv /\ conv' = c
  BY DEF Save

LEMMA StoringRoom ==
  ASSUME Shape, LockInv, RoomOK, ~clash', NEW r \in Runs,
         TurnPersist(r) \/ TurnFinish(r) \/ TurnRecover(r)
  PROVE  RoomOK'
  <1>1. ASSUME NEW c, Stores(r, c), NEW x \in TurnRec, Puts(r, x), Saves(turn[r], x, c),
               x.pc = "unlock" => c.status = "idle"
        PROVE  RoomOK'
    <2>1. turn[r].snap = conv /\ conv' = c /\ faults' = faults
      BY <1>1, FreshCopy DEF Stores, NoFault
    <2>2. CASE c = SetStatus(turn[r].snap, "idle")
      <3>1. conv'.status = "idle"
        BY <2>1, <2>2, RoomNumbers, StatusFacts
      <3>2. turn[r].pc \in Locked
        BY <1>1 DEF Saves, Locked
      <3>. QED
        BY <1>1, <3>1, <3>2, RoomIdle DEF Saves
    <2>3. CASE c = turn[r].snap
      <3>1. turn[r].pc \in Owner => x.pc \in Owner \/ conv.status # "running"
        BY <1>1, <2>1, <2>3 DEF Saves, Owner, Listed
      <3>2. x.pc \in Over => turn[r].pc \in Over \/ conv.status # "running"
        BY <1>1, <2>1, <2>3 DEF Saves
      <3>. QED
        BY <1>1, <2>1, <2>3, <3>1, <3>2, RoomPut, RoomNumbers DEF Saves
    <2>. QED
      BY <1>1, <2>2, <2>3 DEF Saves
  <1>2. CASE TurnPersist(r) \/ TurnFinish(r)
    <2>1. PICK c : Stores(r, c) /\ \E x \in TurnRec : Puts(r, x) /\ Saves(turn[r], x, c)
      BY <1>2, PersistFacts, FinishFacts
    <2>2. PICK x \in TurnRec : Puts(r, x) /\ Saves(turn[r], x, c)
      BY <2>1
    <2>3. turn[r].pc # "recover"
      BY <1>2 DEF TurnPersist, TurnFinish
    <2>4. x.pc # "unlock"
      BY <2>2, <2>3 DEF Saves, InTurn
    <2>. QED
      BY <1>1, <2>1, <2>2, <2>4
  <1>3. CASE TurnRecover(r)
    <2>1. CASE /\ turn[r].pc = "recover" /\ turn[r].snap # NoConv /\ turn[r].snap.status = "idle" /\ Local
               /\ \E x \in TurnRec : Puts(r, x) /\ x.pc = "unlock" /\ x.snap = NoConv
      <3>1. conv'.status = "idle"
        BY <2>1 DEF RoomOK, Recovering, Local
      <3>. QED
        BY <2>1, <3>1, RoomIdle DEF Locked
    <2>. QED
      BY <1>1, <1>3, <2>1, RecoverFacts
  <1>. QED
    BY <1>2, <1>3

LEMMA BoundaryRoom ==
  ASSUME Shape, LockInv, RoomOK, ~clash', NEW r \in Runs,
         TurnComplete(r) \/ TurnDrain(r) \/ TurnSteered(r) \/ TurnDiscard(r)
  PROVE  RoomOK'
  <1>0. faults' = faults
    BY DEF TurnComplete, TurnDrain, TurnSteered, TurnDiscard, NoFault
  <1>1. CASE TurnComplete(r)
    <2>1. PICK x \in TurnRec : Puts(r, x) /\ x.pc = turn[r].pc /\ x.snap = NoConv
      BY <1>1, CompleteFacts
    <2>2. turn[r].snap = conv /\ conv' = Add(turn[r].snap, Head(turn[r].todo))
      BY <1>1, FreshCopy DEF TurnComplete
    <2>3. conv'.status = conv.status
      <3>1. turn[r].todo \in Seq(Jobs) /\ turn[r].todo # <<>>
        BY <1>1, TurnShape DEF TurnRec, TurnComplete
      <3>2. Head(turn[r].todo) \in Facts
        BY <3>1 DEF Facts
      <3>. QED
        BY <2>2, <3>2, AddFacts, RoomNumbers
    <2>. QED
      BY <1>0, <2>1, <2>3, RoomPut, RoomNumbers
  <1>2. CASE TurnDrain(r)
    <2>1. PICK x \in TurnRec : Puts(r, x) /\ x.pc = "steer" /\ x.snap = NoConv
      BY <1>2, DrainFacts
    <2>2. conv'.status = conv.status
      BY <1>2, FreshCopy, DrainedFacts, RoomNumbers DEF TurnDrain
    <2>3. x.pc \in Owner /\ x.pc \notin Over
      BY <2>1 DEF Owner, Listed, InTurn, Over
    <2>. QED
      BY <1>0, <2>1, <2>2, <2>3, RoomPut, RoomNumbers
  <1>3. CASE TurnSteered(r)
    <2>1. PICK x \in TurnRec : Puts(r, x) /\ x.pc = "settle" /\ x.snap = NoConv
      BY <1>3, SteeredFacts
    <2>2. turn[r].snap = conv /\ conv' = Add(turn[r].snap, turn[r].hand)
      BY <1>3, FreshCopy DEF TurnSteered
    <2>3. turn[r].hand \in Facts
      BY <1>3, TurnShape DEF TurnRec, TurnSteered, Facts
    <2>4. conv'.status = conv.status
      BY <2>2, <2>3, AddFacts, RoomNumbers
    <2>5. x.pc \in Owner /\ x.pc \notin Over
      BY <2>1 DEF Owner, Listed, InTurn, Over
    <2>. QED
      BY <1>0, <2>1, <2>4, <2>5, RoomPut, RoomNumbers
  <1>4. CASE TurnDiscard(r)
    <2>1. PICK x \in TurnRec : Puts(r, x) /\ (x.pc = "decide" \/ x.pc = "cleanup")
      BY <1>4, DiscardFacts
    <2>2. x.pc \in Owner /\ turn[r].pc \in Over /\ conv' = conv
      BY <1>4, <2>1 DEF Owner, Listed, InTurn, Over, TurnDiscard
    <2>. QED
      BY <1>0, <2>1, <2>2, RoomPut, RoomNumbers
  <1>. QED
    BY <1>1, <1>2, <1>3, <1>4

LEMMA EdgeRoom ==
  ASSUME Shape, RoomOK, NEW r \in Runs, TurnEnter(r) \/ TurnCleanup(r) \/ TurnUnlock(r) \/ TurnWake(r)
  PROVE  RoomOK'
  <1>1. conv' = conv /\ faults' = faults
    BY DEF TurnEnter, TurnCleanup, TurnUnlock, TurnWake, NoFault
  <1>2. CASE TurnEnter(r)
    <2>1. PICK x \in TurnRec : Puts(r, x) /\ x.pc = "stream"
      BY <1>2, GotoFacts DEF Shape, TurnEnter, TurnPcs, InTurn
    <2>2. x.pc \in Owner /\ x.pc \notin Over
      BY <2>1 DEF Owner, Listed, InTurn, Over
    <2>. QED
      BY <1>1, <2>1, <2>2, RoomPut, RoomNumbers
  <1>3. CASE TurnCleanup(r)
    <2>1. PICK x \in TurnRec : Puts(r, x) /\ x.pc = "left"
      BY <1>3, CleanupFacts
    <2>2. x.pc \in Owner /\ turn[r].pc \in Over
      BY <1>3, <2>1 DEF Owner, Over, TurnCleanup
    <2>. QED
      BY <1>1, <2>1, <2>2, RoomPut, RoomNumbers
  <1>4. CASE TurnUnlock(r) \/ TurnWake(r)
    <2>1. PICK pc \in {"wake", "done"} : Goto(r, pc)
      BY <1>4 DEF TurnUnlock, TurnWake
    <2>2. PICK x \in TurnRec : Puts(r, x) /\ x.pc = pc
      BY <2>1, GotoFacts DEF Shape, TurnPcs
    <2>3. turn[r].pc \notin Owner /\ x.pc \notin Over
      BY <1>4, <2>2 DEF TurnUnlock, TurnWake, Owner, Listed, InTurn, Over
    <2>. QED
      BY <1>1, <2>2, <2>3, RoomPut, RoomNumbers
  <1>. QED
    BY <1>2, <1>3, <1>4

LEMMA FailureRoom ==
  ASSUME Shape, RoomOK, ~(faults' > 1), NEW r \in Runs, TurnFault(r) \/ TurnPanic(r)
  PROVE  RoomOK'
  <1>1. conv' = conv /\ faults \in Nat /\ faults' = faults + 1
    BY RoomNumbers DEF TurnFault, TurnPanic, AFault
  <1>2. CASE TurnFault(r)
    <2>1. PICK x \in TurnRec : Puts(r, x) /\ x.pc = AfterFault(turn[r].pc) /\ x.snap = NoConv
      BY <1>2, FaultFacts
    <2>2. turn[r].pc = "recover" => conv.status # "running"
      BY <1>1 DEF RoomOK, Released, Over
    <2>3. turn[r].pc \in Owner => x.pc \in Owner \/ conv.status # "running"
      BY <1>2, <2>1, <2>2, AfterFaultFacts DEF Owner, Listed, InTurn
    <2>. QED
      BY <1>1, <2>1, <2>3, RoomPut
  <1>3. CASE TurnPanic(r)
    <2>1. PICK x \in TurnRec : Puts(r, x) /\ x.pc = "cleanup" /\ x.snap = NoConv
      BY <1>3, PanicFacts
    <2>2. x.pc \in Owner
      BY <2>1 DEF Owner, Listed
    <2>. QED
      BY <1>1, <2>1, <2>2, RoomPut
  <1>. QED
    BY <1>2, <1>3

LEMMA SlotRoom ==
  ASSUME Shape, RoomOK
  PROVE  /\ \A r \in Runs : CancelSteer(r) => RoomOK'
         /\ \A s \in Steers : SteerLook(s) \/ SteerQueue(s) => RoomOK'
  <1>1. ASSUME NEW r \in Runs, NEW s \in Steers \cup {Nobody}, turn' = [turn EXCEPT ![r].steer = s],
               conv' = conv, faults' = faults
        PROVE  RoomOK'
    <2>1. PICK x \in TurnRec : Puts(r, x) /\ x.pc = turn[r].pc /\ x.snap = turn[r].snap
      BY ZenonT(60), <1>1, SlotFacts
    <2>2. x.pc = "recover" /\ x.snap # NoConv => x.snap.status = conv.status
      BY <2>1 DEF RoomOK, Recovering
    <2>. QED
      BY <1>1, <2>1, <2>2, RoomPut, RoomNumbers
  <1>2. ASSUME NEW r \in Runs, CancelSteer(r) PROVE RoomOK'
    BY <1>1, <1>2 DEF CancelSteer, Others, NoFault
  <1>3. ASSUME NEW s \in Steers, SteerLook(s) PROVE RoomOK'
    BY <1>3, RoomStays, RoomNumbers DEF SteerLook, Others, NoFault
  <1>4. ASSUME NEW s \in Steers, SteerQueue(s) PROVE RoomOK'
    <2>1. str[s].run \in Runs
      BY <1>4, RestFacts DEF RestOK, Copies, SteerQueue
    <2>2. conv' = conv /\ faults' = faults
      BY <1>4 DEF SteerQueue, Others, NoFault
    <2>3. \/ turn' = turn
          \/ turn' = [turn EXCEPT ![str[s].run].steer = s]
      BY <1>4 DEF SteerQueue
    <2>. QED
      BY <1>1, <2>1, <2>2, <2>3, RoomStays, RoomNumbers
  <1>. QED
    BY <1>2, <1>3, <1>4

\* A turn is registered while nobody works on the room.
LEMMA LaunchRoom ==
  ASSUME Shape, RoomOK, HasFresh, Launch, \A r \in Runs : turn[r].pc \notin Locked
  PROVE  RoomOK'
  <1>1. PICK r \in Runs : \E x \in TurnRec : Puts(r, x) /\ x.pc = "enter"
    BY LaunchFacts
  <1>2. PICK x \in TurnRec : Puts(r, x) /\ x.pc = "enter"
    BY <1>1
  <1>3. Owned'
    <2>1. turn'[r].pc \in Owner
      BY <1>2 DEF Owner, Listed, Puts
    <2>. QED
      BY <2>1 DEF Owned
  <1>4. \A q \in Runs : turn'[q].pc \notin Over
    <2>1. x.pc \notin Over /\ Over \subseteq Locked
      BY <1>2 DEF Over, Locked, InTurn
    <2>. QED
      BY <1>2, <2>1 DEF Puts
  <1>5. Released' /\ Recovering'
    <2>1. "recover" \in Over
      BY DEF Over
    <2>. QED
      BY <1>4, <2>1 DEF Released, Recovering
  <1>. QED
    BY <1>3, <1>5 DEF RoomOK

LEMMA StartRoom ==
  ASSUME Shape, LockInv, RoomOK,
         \/ UserStart \/ UserLoad \/ UserSave
         \/ \E p \in Wakers : WakeEnter(p) \/ WakeTurn(p) \/ WakeGo(p)
  PROVE  RoomOK'
  <1>1. faults \in Nat /\ faults' \in Nat /\ faults' >= faults
    BY RoomNumbers
       DEF UserStart, UserLoad, UserSave, WakeEnter, WakeTurn, WakeGo, NoFault, AFault
  <1>2. CASE conv' = conv /\ turn' = turn
    BY <1>1, <1>2, RoomStays
  <1>3. CASE UserSave /\ HasFresh /\ Launch
    <2>1. \A r \in Runs : turn[r].pc \notin Locked
      BY <1>3, Names DEF UserSave, LockInv, OneRun, Starting
    <2>. QED
      BY <1>3, <2>1, LaunchRoom
  <1>4. ASSUME NEW p \in Wakers, WakeGo(p), HasFresh, Launch PROVE RoomOK'
    <2>1. \A r \in Runs : turn[r].pc \in Locked => r = p
      BY <1>4 DEF WakeGo, LockInv, OneRun, Starting
    <2>2. p \in Runs => turn[p].pc \notin Locked
      BY <1>4 DEF WakeGo, LockInv, Callers, Locked, InTurn
    <2>. QED
      BY <1>4, <2>1, <2>2, LaunchRoom
  <1>5. ASSUME NEW p \in Wakers, WakeEnter(p) \/ WakeTurn(p) \/ WakeGo(p) PROVE RoomOK'
    BY <1>2, <1>4, <1>5 DEF WakeEnter, WakeTurn, WakeGo
  <1>6. CASE UserStart \/ UserLoad \/ UserSave
    BY <1>2, <1>3, <1>6 DEF UserStart, UserLoad, UserSave
  <1>. QED
    BY <1>5, <1>6

LEMMA OutsideRoom ==
  ASSUME Shape, RoomOK, ~clash',
         \/ \E n \in Notes : PubLoad(n) \/ PubSave(n)
         \/ \E j \in Jobs : JobDone(j) \/ JobLoad(j) \/ JobSave(j)
         \/ CmpStart \/ CmpLoad \/ CmpRefresh \/ CmpSave \/ CmpFault \/ CmpClear
  PROVE  RoomOK'
  <1>1. faults \in Nat /\ faults' \in Nat /\ faults' >= faults
    <2>1. NoFault \/ AFault
      BY DEF PubLoad, PubSave, JobDone, JobLoad, JobSave, CmpStart, CmpLoad, CmpRefresh, CmpSave,
             CmpFault, CmpClear
    <2>. QED
      BY <2>1, RoomNumbers DEF NoFault, AFault
  <1>2. ASSUME NEW n \in Notes, PubLoad(n) \/ PubSave(n) PROVE RoomOK'
    <2>1. turn' = turn
      BY <1>2 DEF PubLoad, PubSave
    <2>2. CASE conv' = conv
      BY <1>1, <2>1, <2>2, RoomStays
    <2>3. CASE PubSave(n) /\ Save(pub[n].snap, QueueAnnouncement(pub[n].snap, n))
      <3>1. conv' = QueueAnnouncement(conv, n)
        BY <2>3, FreshCopy
      <3>2. conv'.status = conv.status
        BY <3>1, QueuedFacts, RoomNumbers
      <3>. QED
        BY <1>1, <2>1, <3>2, RoomStays
    <2>. QED
      BY <1>2, <2>2, <2>3 DEF PubLoad, PubSave
  <1>3. ASSUME NEW j \in Jobs, JobDone(j) PROVE RoomOK'
    <2>1. conv' = conv
      BY <1>3 DEF JobDone
    <2>2. CASE turn' = turn
      BY <1>1, <2>1, <2>2, RoomStays
    <2>3. ASSUME NEW r \in runs, turn' = [turn EXCEPT ![r].queue = Append(@, j)]
          PROVE  RoomOK'
      <3>1. r \in Runs
        BY RestFacts DEF RestOK
      <3>2. PICK x \in TurnRec : Puts(r, x) /\ x.pc = turn[r].pc /\ x.snap = turn[r].snap
        BY <2>3, <3>1, EnqueueFacts
      <3>3. x.pc = "recover" /\ x.snap # NoConv => x.snap.status = conv.status
        BY <3>1, <3>2 DEF RoomOK, Recovering
      <3>. QED
        BY <1>1, <2>1, <3>1, <3>2, <3>3, RoomPut
    <2>. QED
      BY <1>3, <2>2, <2>3 DEF JobDone
  <1>4. ASSUME NEW j \in Jobs, JobLoad(j) \/ JobSave(j) PROVE RoomOK'
    <2>1. turn' = turn
      BY <1>4 DEF JobLoad, JobSave
    <2>2. CASE conv' = conv
      BY <1>1, <2>1, <2>2, RoomStays
    <2>3. CASE JobSave(j) /\ Save(job[j].snap, Add(job[j].snap, j))
      <3>1. conv' = Add(conv, j)
        BY <2>3, FreshCopy
      <3>2. conv'.status = conv.status
        BY <3>1, AddFacts, RoomNumbers DEF Facts
      <3>. QED
        BY <1>1, <2>1, <3>2, RoomStays
    <2>. QED
      BY <1>4, <2>2, <2>3 DEF JobLoad, JobSave
  <1>5. CASE CmpStart \/ CmpLoad \/ CmpRefresh \/ CmpSave \/ CmpFault \/ CmpClear
    <2>1. turn' = turn
      BY <1>5 DEF CmpStart, CmpLoad, CmpRefresh, CmpSave, CmpFault, CmpClear, CmpStep
    <2>2. conv' = conv
      BY <1>5, FreshCopy DEF CmpStart, CmpLoad, CmpRefresh, CmpSave, CmpFault, CmpClear
    <2>. QED
      BY <1>1, <2>1, <2>2, RoomStays
  <1>. QED
    BY <1>2, <1>3, <1>4, <1>5

\* What is damaged stays so.
LEMMA SaveGrows ==
  ASSUME NEW snap, NEW c, Save(snap, c) \/ UNCHANGED clash
  PROVE  clash => clash'
  BY Zenon DEF Save

LEMMA ClashStays ==
  ASSUME [Next]_vars
  PROVE  clash => clash'
  <1>1. ASSUME NEW r \in Runs, TurnStep(r) PROVE clash => clash'
    <2>1. CASE \/ TurnEnter(r) \/ TurnStream(r) \/ TurnLoad(r) \/ TurnTools(r) \/ TurnAskEnds(r)
               \/ TurnResults(r) \/ TurnCompleted(r) \/ TurnSteer(r)
      BY <2>1, SaveGrows DEF TurnEnter, TurnStream, TurnLoad, TurnTools, TurnAskEnds, TurnResults,
                  TurnCompleted, TurnSteer, Local, history
    <2>2. CASE \/ TurnSettle(r) \/ TurnDiscard(r) \/ TurnDecide(r) \/ TurnChain(r) \/ TurnCleanup(r)
               \/ TurnUnlock(r) \/ TurnWake(r)
      BY <2>2, SaveGrows DEF TurnSettle, TurnDiscard, TurnDecide, TurnChain, TurnCleanup, TurnUnlock,
                  TurnWake, Local, history
    <2>3. CASE TurnPersist(r) \/ TurnFinish(r) \/ TurnRecover(r)
      BY <2>3, SaveGrows DEF TurnPersist, TurnFinish, TurnRecover, Saved, Local, history
    <2>4. CASE TurnComplete(r) \/ TurnDrain(r) \/ TurnSteered(r)
      BY <2>4, SaveGrows DEF TurnComplete, TurnDrain, TurnSteered
    <2>. QED
      BY <1>1, <2>1, <2>2, <2>3, <2>4 DEF TurnStep
  <1>2. ASSUME NEW r \in Runs,
               \/ TurnCompact(r) \/ AskAnswer(r) \/ TurnFault(r) \/ TurnPanic(r)
               \/ UserStop(r) \/ CancelSteer(r)
        PROVE  clash => clash'
    BY <1>2, SaveGrows DEF TurnCompact, AskAnswer, TurnFault, TurnPanic, UserStop, CancelSteer, Local,
                Others, history
  <1>3. CASE UserStart \/ UserLoad \/ UserSave
    BY <1>3, SaveGrows DEF UserStart, UserLoad, UserSave, history
  <1>4. ASSUME NEW p \in Wakers, WakeEnter(p) \/ WakeTurn(p) \/ WakeGo(p) PROVE clash => clash'
    BY <1>4, SaveGrows DEF WakeEnter, WakeTurn, WakeGo, history
  <1>5. ASSUME NEW n \in Notes, PubLoad(n) \/ PubSave(n) PROVE clash => clash'
    BY <1>5, SaveGrows DEF PubLoad, PubSave, history
  <1>6. ASSUME NEW j \in Jobs, JobDone(j) \/ JobLoad(j) \/ JobSave(j) PROVE clash => clash'
    BY <1>6, SaveGrows DEF JobDone, JobLoad, JobSave, history
  <1>7. ASSUME NEW s \in Steers, SteerLook(s) \/ SteerQueue(s) PROVE clash => clash'
    BY <1>7, SaveGrows DEF SteerLook, SteerQueue, Others, history
  <1>8. CASE CmpStart \/ CmpLoad \/ CmpRefresh \/ CmpSave \/ CmpFault \/ CmpClear
    BY <1>8, SaveGrows DEF CmpStart, CmpLoad, CmpRefresh, CmpSave, CmpFault, CmpClear, history
  <1>9. CASE Crash \/ UNCHANGED vars
    BY <1>9, SaveGrows DEF Crash, vars, history
  <1>10. CASE Next
    BY <1>1, <1>2, <1>3, <1>4, <1>5, <1>6, <1>7, <1>8, <1>9, <1>10 DEF Next
  <1>. QED
    BY <1>9, <1>10

LEMMA FaultsGrow ==
  ASSUME [Next]_vars
  PROVE  faults' = faults \/ faults' = faults + 1
  <1>. DEFINE G == NoFault \/ AFault
  <1>. SUFFICES G
    BY SMTT(60) DEF NoFault, AFault
  <1>1. ASSUME NEW r \in Runs, TurnStep(r) PROVE G
    BY Zenon, <1>1 DEF TurnStep, TurnEnter, TurnStream, TurnLoad, TurnPersist, TurnTools, TurnAskEnds, TurnResults,
                TurnComplete, TurnCompleted, TurnDrain, TurnSteer, TurnSteered, TurnSettle, TurnFinish,
                TurnDiscard, TurnDecide, TurnChain, TurnCleanup, TurnRecover, TurnUnlock, TurnWake,
                Saved, Local
  <1>2. ASSUME NEW r \in Runs,
               \/ TurnCompact(r) \/ AskAnswer(r) \/ TurnFault(r) \/ TurnPanic(r)
               \/ UserStop(r) \/ CancelSteer(r)
        PROVE  G
    BY <1>2 DEF TurnCompact, AskAnswer, TurnFault, TurnPanic, UserStop, CancelSteer, Local
  <1>3. CASE UserStart \/ UserLoad \/ UserSave
    <2>1. CASE UserStart \/ UserLoad
      BY <2>1 DEF UserStart, UserLoad
    <2>2. CASE UserSave
      BY <2>2 DEF UserSave
    <2>. QED
      BY <1>3, <2>1, <2>2
  <1>4. ASSUME NEW p \in Wakers, WakeEnter(p) \/ WakeTurn(p) \/ WakeGo(p) PROVE G
    BY <1>4 DEF WakeEnter, WakeTurn, WakeGo
  <1>5. ASSUME NEW n \in Notes, PubLoad(n) \/ PubSave(n) PROVE G
    BY <1>5 DEF PubLoad, PubSave
  <1>6. ASSUME NEW j \in Jobs, JobDone(j) \/ JobLoad(j) \/ JobSave(j) PROVE G
    BY <1>6 DEF JobDone, JobLoad, JobSave
  <1>7. ASSUME NEW s \in Steers, SteerLook(s) \/ SteerQueue(s) PROVE G
    BY <1>7 DEF SteerLook, SteerQueue
  <1>8. CASE CmpStart \/ CmpLoad \/ CmpRefresh \/ CmpSave \/ CmpFault \/ CmpClear
    <2>1. CASE CmpStart
      BY <2>1 DEF CmpStart
    <2>2. CASE CmpLoad \/ CmpRefresh \/ CmpClear
      BY Zenon, <2>2 DEF CmpLoad, CmpRefresh, CmpClear
    <2>3. CASE CmpSave \/ CmpFault
      BY Zenon, <2>3 DEF CmpSave, CmpFault
    <2>. QED
      BY <1>8, <2>1, <2>2, <2>3
  <1>9. CASE Crash \/ UNCHANGED vars
    BY <1>9 DEF Crash, vars, NoFault
  <1>10. CASE Next
    <2>. HIDE DEF G
    <2>. QED
      BY <1>1, <1>2, <1>3, <1>4, <1>5, <1>6, <1>7, <1>8, <1>9, <1>10 DEF Next
  <1>. QED
    BY <1>9, <1>10

LEMMA RoomInit == Init => RoomInv
  <1>. SUFFICES ASSUME Init PROVE RoomOK
    BY DEF RoomInv
  <1>1. conv.status = "idle" /\ \A r \in Runs : turn[r].pc = "new"
    BY DEF Init, NewTurn
  <1>. QED
    BY <1>1 DEF RoomOK, Owned, Released, Recovering

LEMMA RoomStep == Shape /\ LockInv /\ RoomInv /\ [Next]_vars => RoomInv'
  <1>. SUFFICES ASSUME Shape, LockInv, RoomInv, [Next]_vars, ~Harm' PROVE RoomOK'
    BY DEF RoomInv
  <1>1. ~clash' /\ ~(faults' > 1)
    BY DEF Harm
  <1>2. RoomOK
    BY <1>1, ClashStays, FaultsGrow, RoomNumbers DEF RoomInv, Harm
  <1>3. ASSUME NEW r \in Runs, TurnStep(r) PROVE RoomOK'
    BY <1>1, <1>2, <1>3, MemoryRoom, StoringRoom, BoundaryRoom, EdgeRoom DEF TurnStep
  <1>4. ASSUME NEW r \in Runs,
               \/ TurnCompact(r) \/ AskAnswer(r) \/ TurnFault(r) \/ TurnPanic(r)
               \/ UserStop(r) \/ CancelSteer(r)
        PROVE  RoomOK'
    BY <1>1, <1>2, <1>4, MemoryRoom, FailureRoom, SlotRoom
  <1>5. CASE UNCHANGED vars
    BY <1>2, <1>5, RoomStays, RoomNumbers DEF vars, goroutines
  <1>6. CASE Crash
    <2>1. conv'.status = "idle"
      BY <1>6, CrashFacts, StatusFacts, RoomNumbers
    <2>. QED
      BY <1>6, <2>1, CrashFacts DEF RoomOK, Owned, Released, Recovering
  <1>7. CASE Next
    BY <1>1, <1>2, <1>3, <1>4, <1>6, <1>7, StartRoom, OutsideRoom, SlotRoom DEF Next
  <1>. QED
    BY <1>5, <1>7

\* When no turn owns the room and nobody is starting one, the room is idle,
\* after a panic or a failed save too (finishTurn, FailTurn, RecoverOrphanedTurn).
THEOREM RoomAlwaysReleased == Spec => []RoomReleased
  <1>1. Shape /\ RoomInv => RoomReleased
    <2>. SUFFICES ASSUME Shape, RoomInv, \A r \in Runs : turn[r].pc \in {"new", "unlock", "wake", "done"},
                         ~Harm
                  PROVE  conv.status = "idle"
      BY DEF RoomReleased, Harm
    <2>1. \A r \in Runs : turn[r].pc \notin Owner
      BY DEF Owner, Listed, InTurn
    <2>2. conv.status # "running"
      BY <2>1 DEF RoomInv, RoomOK, Owned
    <2>. QED
      BY <2>2, RoomNumbers DEF Conversation
  <1>. QED
    BY <1>1, ShapeInit, ShapeStep, LockInit, LockStep, RoomInit, RoomStep, PTL DEF Spec

-----------------------------------------------------------------------------
(* Conserved.  A copy that is saved while it is fresh grows the stored     *)
(* conversation; a result moves from the queue of a registered turn to its *)
(* hands and from there to the transcript, or back to the queue.           *)

Announced == \A n \in acked : Holds(conv.pend, n) \/ Holds(conv.log, n) \/ n \in dropped

Accounted(j) ==
    \/ Holds(conv.log, j)
    \/ \E r \in runs : Holds(turn[r].queue, j)
    \/ \E r \in Runs : turn[r].pc \in {"result", "left"} /\ Holds(turn[r].todo, j)

Delivered == \A j \in Jobs : job[j].pc = "done" => Accounted(j)

Kept == Announced /\ Delivered

\* d has everything c has, further on the way to the transcript.
Grows(c, d) ==
    /\ \A f : Holds(c.log, f) => Holds(d.log, f)
    /\ \A f : Holds(c.pend, f) => Holds(d.pend, f) \/ Holds(d.log, f)

\* What an appended, a concatenated and a shortened queue hold.
LEMMA HoldsAppend ==
  ASSUME NEW S, NEW q \in Seq(S), NEW e \in S, NEW f
  PROVE  Holds(Append(q, e), f) <=> Holds(q, f) \/ f = e
  <1>1. /\ Len(Append(q, e)) = Len(q) + 1 /\ Len(q) \in Nat
        /\ \A i \in 1..Len(q) : Append(q, e)[i] = q[i]
        /\ Append(q, e)[Len(q) + 1] = e
    BY AppendProperties, LenProperties
  <1>2. ASSUME NEW i \in 1..Len(Append(q, e)) PROVE i \in 1..Len(q) \/ i = Len(q) + 1
    BY <1>1
  <1>3. Holds(Append(q, e), f) => Holds(q, f) \/ f = e
    BY <1>1, <1>2 DEF Holds
  <1>4. Len(q) + 1 \in 1..Len(Append(q, e)) /\ \A i \in 1..Len(q) : i \in 1..Len(Append(q, e))
    BY <1>1
  <1>5. Holds(q, f) \/ f = e => Holds(Append(q, e), f)
    BY <1>1, <1>4 DEF Holds
  <1>. QED
    BY <1>3, <1>5

LEMMA HoldsConcat ==
  ASSUME NEW S, NEW p \in Seq(S), NEW q \in Seq(S), NEW f
  PROVE  Holds(p, f) \/ Holds(q, f) => Holds(p \o q, f)
  <1>1. /\ Len(p \o q) = Len(p) + Len(q) /\ Len(p) \in Nat /\ Len(q) \in Nat
        /\ \A i \in 1..Len(p) + Len(q) : (p \o q)[i] = IF i <= Len(p) THEN p[i] ELSE q[i - Len(p)]
    BY ConcatProperties, LenProperties
  <1>2. ASSUME NEW i \in 1..Len(p), p[i] = f PROVE Holds(p \o q, f)
    <2>1. i \in 1..Len(p \o q) /\ (p \o q)[i] = p[i]
      BY <1>1
    <2>. QED
      BY <1>2, <2>1 DEF Holds
  <1>3. ASSUME NEW i \in 1..Len(q), q[i] = f PROVE Holds(p \o q, f)
    <2>1. Len(p) + i \in 1..Len(p \o q) /\ (p \o q)[Len(p) + i] = q[i]
      BY <1>1
    <2>. QED
      BY <1>3, <2>1 DEF Holds
  <1>. QED
    BY <1>2, <1>3 DEF Holds

LEMMA HoldsTail ==
  ASSUME NEW S, NEW q \in Seq(S), q # <<>>, NEW f, Holds(q, f)
  PROVE  f = Head(q) \/ Holds(Tail(q), f)
  <1>1. /\ Head(q) = q[1] /\ Len(q) \in Nat \ {0} /\ Len(Tail(q)) = Len(q) - 1
        /\ \A i \in 1..Len(Tail(q)) : Tail(q)[i] = q[i + 1]
    BY HeadTailProperties, EmptySeq, LenProperties
  <1>2. PICK i \in 1..Len(q) : q[i] = f
    BY DEF Holds
  <1>3. CASE i = 1
    BY <1>1, <1>2, <1>3
  <1>4. CASE i # 1
    <2>1. i - 1 \in 1..Len(Tail(q)) /\ Tail(q)[i - 1] = q[i]
      BY <1>1, <1>4
    <2>. QED
      BY <1>2, <2>1 DEF Holds
  <1>. QED
    BY <1>3, <1>4

\* What the saves of the code do to the conversation: a status, the drain of
\* the queue and a new message keep what is there.
LEMMA StatusGrows ==
  ASSUME NEW c \in Conversation, NEW s \in {"idle", "running"}
  PROVE  Grows(c, SetStatus(c, s))
  BY StatusFacts DEF Grows

LEMMA DrainGrows ==
  ASSUME NEW c \in Conversation
  PROVE  /\ Grows(c, DrainPendingAnnouncements(c))
         /\ \A s \in {"idle", "running"} : Grows(c, SetStatus(DrainPendingAnnouncements(c), s))
  <1>. SUFFICES ASSUME NEW d, d = DrainPendingAnnouncements(c)
                PROVE  Grows(c, d) /\ \A s \in {"idle", "running"} : Grows(c, SetStatus(d, s))
    OBVIOUS
  <1>1. d \in Conversation /\ d.log = c.log \o c.pend
    BY DrainedFacts
  <1>2. c.log \in Seq(Facts) /\ c.pend \in Seq(Notes)
    BY DEF Conversation
  <1>3. c.pend \in Seq(Facts)
    BY <1>2 DEF Facts
  <1>4. \A f : Holds(c.log, f) \/ Holds(c.pend, f) => Holds(d.log, f)
    BY <1>1, <1>2, <1>3, HoldsConcat
  <1>5. \A s \in {"idle", "running"} : SetStatus(d, s).log = d.log
    BY <1>1, StatusFacts
  <1>. QED
    BY <1>4, <1>5 DEF Grows

LEMMA AddGrows ==
  ASSUME NEW c \in Conversation, NEW f \in Facts
  PROVE  Grows(c, Add(c, f)) /\ Holds(Add(c, f).log, f)
  <1>1. c.log \in Seq(Facts)
    BY DEF Conversation
  <1>2. Add(c, f).log = Append(c.log, f) /\ Add(c, f).pend = c.pend
    BY AddFacts
  <1>3. \A g : Holds(Append(c.log, f), g) <=> Holds(c.log, g) \/ g = f
    BY <1>1, HoldsAppend
  <1>. QED
    BY <1>2, <1>3 DEF Grows

\* A queued announcement takes the place of the oldest one when the queue is full.
LEMMA QueueGrows ==
  ASSUME NEW c \in Conversation, NEW n \in Notes, NEW d, d = QueueAnnouncement(c, n)
  PROVE  /\ Holds(d.pend, n) /\ d.log = c.log
         /\ \A f : Holds(c.pend, f) =>
               Holds(d.pend, f) \/ (~(Len(d.pend) > Len(c.pend)) /\ f = c.pend[1])
  <1>. DEFINE q == Append(c.pend, n)
  <1>1. c.pend \in Seq(Notes)
    BY DEF Conversation
  <1>2. /\ q \in Seq(Notes) /\ q # <<>> /\ Len(q) = Len(c.pend) + 1 /\ Len(c.pend) \in Nat
        /\ q[Len(q)] = n /\ \A i \in 1..Len(c.pend) : q[i] = c.pend[i]
    BY <1>1, AppendProperties, LenProperties
  <1>3. \A f : Holds(q, f) <=> Holds(c.pend, f) \/ f = n
    BY <1>1, HoldsAppend
  <1>4. d.pend = (IF Len(q) > MaxPending THEN Tail(q) ELSE q) /\ d.log = c.log
    BY QueuedFacts
  <1>. HIDE DEF q
  <1>5. CASE ~(Len(q) > MaxPending)
    BY <1>3, <1>4, <1>5
  <1>6. CASE Len(q) > MaxPending
    <2>1. Len(c.pend) >= 1
      BY <1>2, <1>6, TurnAssumption
    <2>2. /\ Head(q) = q[1] /\ Len(Tail(q)) = Len(q) - 1
          /\ \A i \in 1..Len(Tail(q)) : Tail(q)[i] = q[i + 1]
      BY <1>2, HeadTailProperties
    <2>3. Head(q) = c.pend[1]
      BY <1>2, <2>1, <2>2
    <2>4. Holds(Tail(q), n)
      <3>1. Len(q) - 1 \in 1..Len(Tail(q)) /\ Tail(q)[Len(q) - 1] = n
        BY <1>2, <2>1, <2>2
      <3>. QED
        BY <3>1 DEF Holds
    <2>5. \A f : Holds(q, f) => f = Head(q) \/ Holds(Tail(q), f)
      BY <1>2, HoldsTail
    <2>6. ~(Len(Tail(q)) > Len(c.pend))
      BY <1>2, <2>2
    <2>. QED
      BY <1>3, <1>4, <1>6, <2>3, <2>4, <2>5, <2>6
  <1>. QED
    BY <1>5, <1>6

\* Who keeps its announcements and its results.
LEMMA AnnouncedStays ==
  ASSUME Announced, Grows(conv, conv'), acked' = acked, dropped' = dropped
  PROVE  Announced'
  BY DEF Announced, Grows

LEMMA DeliveredStays ==
  ASSUME Delivered, \A f : Holds(conv.log, f) => Holds(conv'.log, f), turn' = turn, runs' = runs,
         \A j \in Jobs : job'[j].pc = "done" => job[j].pc = "done" \/ Holds(conv'.log, j)
  PROVE  Delivered'
  BY DEF Delivered, Accounted

\* The results the goroutine of r had are where they belong when it is x.
Carries(r, x, j) ==
    \/ Holds(conv'.log, j)
    \/ r \in runs' /\ Holds(x.queue, j)
    \/ x.pc \in {"result", "left"} /\ Holds(x.todo, j)

\* The step makes it x, and every result is accounted for.
Moves(r, x) ==
    /\ Puts(r, x) /\ \A f : Holds(conv.log, f) => Holds(conv'.log, f)
    /\ \A q \in runs : q # r => q \in runs'
    /\ \A j \in Jobs : job'[j].pc = "done" =>
          /\ job[j].pc = "done" \/ Carries(r, x, j)
          /\ r \in runs /\ Holds(turn[r].queue, j) => Carries(r, x, j)
          /\ turn[r].pc \in {"result", "left"} /\ Holds(turn[r].todo, j) => Carries(r, x, j)

LEMMA DeliveredPut ==
  ASSUME Shape, Delivered, NEW r \in Runs, NEW x, Moves(r, x)
  PROVE  Delivered'
  <1>. SUFFICES ASSUME NEW j \in Jobs, job'[j].pc = "done" PROVE Accounted(j)'
    BY DEF Delivered
  <1>1. turn'[r] = x /\ \A q \in Runs : q # r => turn'[q] = turn[q]
    BY DEF Moves, Puts
  <1>2. Carries(r, x, j) => Accounted(j)'
    BY <1>1 DEF Carries, Accounted
  <1>3. CASE Carries(r, x, j)
    BY <1>2, <1>3
  <1>4. CASE job[j].pc = "done"
    <2>1. Accounted(j)
      BY <1>4 DEF Delivered
    <2>2. CASE Holds(conv.log, j)
      BY <2>2 DEF Moves, Accounted
    <2>3. ASSUME NEW q \in runs, Holds(turn[q].queue, j) PROVE Accounted(j)'
      <3>1. q \in Runs
        BY RestFacts DEF RestOK
      <3>2. CASE q = r
        BY <1>2, <2>3, <3>2 DEF Moves
      <3>3. CASE q # r
        <4>1. q \in runs' /\ Holds(turn'[q].queue, j)
          BY <1>1, <2>3, <3>1, <3>3 DEF Moves
        <4>. QED
          BY <4>1 DEF Accounted
      <3>. QED
        BY <3>2, <3>3
    <2>4. ASSUME NEW q \in Runs, turn[q].pc \in {"result", "left"} /\ Holds(turn[q].todo, j)
          PROVE  Accounted(j)'
      <3>1. CASE q = r
        BY <1>2, <2>4, <3>1 DEF Moves
      <3>2. CASE q # r
        <4>1. turn'[q] = turn[q]
          BY <1>1, <3>2
        <4>. QED
          BY <2>4, <4>1 DEF Accounted
      <3>. QED
        BY <3>1, <3>2
    <2>. QED
      BY <2>1, <2>2, <2>3, <2>4 DEF Accounted
  <1>. QED
    BY <1>3, <1>4 DEF Moves

\* A step of r that moves no result.
LEMMA DeliveredQuiet ==
  ASSUME Shape, Delivered, NEW r \in Runs, NEW x \in TurnRec, Puts(r, x),
         x.queue = turn[r].queue, x.todo = turn[r].todo,
         turn[r].pc \in {"result", "left"} => x.pc = turn[r].pc \/ turn[r].todo = <<>>,
         Grows(conv, conv'), runs \subseteq runs',
         \A j \in Jobs : job'[j].pc = "done" => job[j].pc = "done"
  PROVE  Delivered'
  <1>1. \A j \in Jobs : r \in runs /\ Holds(turn[r].queue, j) => Carries(r, x, j)
    BY DEF Carries
  <1>2. \A j \in Jobs : turn[r].pc \in {"result", "left"} /\ Holds(turn[r].todo, j) => Carries(r, x, j)
    <2>1. \A j \in Jobs : ~Holds(<<>>, j)
      BY EmptySeq DEF Holds
    <2>. QED
      BY <2>1 DEF Carries
  <1>3. \A f : Holds(conv.log, f) => Holds(conv'.log, f)
    BY DEF Grows
  <1>4. \A q \in runs : q # r => q \in runs'
    OBVIOUS
  <1>5. Moves(r, x)
    BY <1>1, <1>2, <1>3, <1>4 DEF Moves
  <1>. QED
    BY <1>5, DeliveredPut

\* Steps of the goroutine in memory.
LEMMA MemoryKeep ==
  ASSUME Shape, Kept, NEW r \in Runs,
         \/ TurnStream(r) \/ TurnLoad(r) \/ TurnAskEnds(r) \/ AskAnswer(r) \/ TurnResults(r)
         \/ TurnCompleted(r) \/ TurnSteer(r) \/ TurnSettle(r) \/ TurnDecide(r) \/ TurnChain(r)
         \/ TurnCompact(r) \/ TurnTools(r) \/ UserStop(r)
  PROVE  Kept'
  <1>1. conv' = conv /\ runs' = runs /\ acked' = acked /\ dropped' = dropped
    BY DEF TurnStream, TurnLoad, TurnAskEnds, AskAnswer, TurnResults, TurnCompleted, TurnSteer,
           TurnSettle, TurnDecide, TurnChain, TurnCompact, TurnTools, UserStop, Local, Others, history
  <1>2. Grows(conv, conv')
    BY <1>1 DEF Grows
  <1>3. \A j \in Jobs : job'[j].pc = "done" => job[j].pc = "done"
    <2>1. CASE TurnTools(r)
      <3>1. CASE job' = job
        BY <3>1
      <3>2. ASSUME NEW j \in Jobs, SetJobPc(j, "live", NoConv)
            PROVE  \A k \in Jobs : job'[k].pc = "done" => job[k].pc = "done"
        BY <3>2, RestFacts DEF SetJobPc, RestOK
      <3>. QED
        BY <2>1, <3>1, <3>2 DEF TurnTools
    <2>2. CASE job' = job
      BY <2>2
    <2>. QED
      BY <2>1, <2>2
         DEF TurnStream, TurnLoad, TurnAskEnds, AskAnswer, TurnResults, TurnCompleted, TurnSteer,
             TurnSettle, TurnDecide, TurnChain, TurnCompact, UserStop, Local, Others
  <1>4. Announced'
    BY <1>1, <1>2, AnnouncedStays DEF Kept
  <1>5. CASE \E x \in TurnRec : Puts(r, x) /\ Quiet(turn[r], x)
    <2>1. PICK x \in TurnRec : Puts(r, x) /\ Quiet(turn[r], x)
      BY <1>5
    <2>2. /\ x.queue = turn[r].queue /\ x.todo = turn[r].todo
          /\ turn[r].pc \in {"result", "left"} => x.pc = turn[r].pc \/ turn[r].todo = <<>>
      BY <2>1 DEF Quiet, SameHands
    <2>3. Delivered'
      BY <1>1, <1>2, <1>3, <2>1, <2>2, DeliveredQuiet DEF Kept
    <2>. QED
      BY <1>4, <2>3 DEF Kept
  <1>6. CASE TurnResults(r)
    <2>1. PICK x \in TurnRec : Puts(r, x) /\ x.pc = "result" /\ x.todo = turn[r].queue
      BY <1>6, ResultsFacts
    <2>2. turn[r].pc = "results"
      BY <1>6 DEF TurnResults
    <2>3. Moves(r, x)
      BY <1>1, <1>3, <2>1, <2>2 DEF Moves, Carries
    <2>. QED
      BY <1>4, <2>3, DeliveredPut DEF Kept
  <1>7. CASE TurnSteer(r) /\ turn[r].steer # Nobody
    <2>1. PICK x \in TurnRec : Puts(r, x) /\ x.queue = turn[r].queue /\ x.todo = turn[r].todo
      BY <1>7, TakeSteerFacts
    <2>2. turn[r].pc = "steer"
      BY <1>7 DEF TurnSteer
    <2>3. Delivered'
      BY <1>1, <1>2, <1>3, <2>1, <2>2, DeliveredQuiet DEF Kept
    <2>. QED
      BY <1>4, <2>3 DEF Kept
  <1>. QED
    BY <1>5, <1>6, <1>7, StreamFacts, LoadFacts, AskFacts, CompletedFacts, SettleFacts, DecideFacts,
       ChainFacts, NoSteerFacts, CompactFacts, ToolsFacts, StopFacts

\* Saves that keep the queue and the transcript.
LEMMA StoringKeep ==
  ASSUME Shape, Kept, ~clash', NEW r \in Runs,
         TurnPersist(r) \/ TurnFinish(r) \/ TurnRecover(r)
  PROVE  Kept'
  <1>1. ASSUME NEW c, Stores(r, c), NEW x \in TurnRec, Puts(r, x), Saves(turn[r], x, c)
        PROVE  Kept'
    <2>1. turn[r].snap = conv /\ conv' = c
      BY <1>1, FreshCopy DEF Stores
    <2>2. Grows(conv, conv')
      <3>1. conv' = conv \/ conv' = SetStatus(conv, "idle")
        BY <1>1, <2>1 DEF Saves
      <3>. QED
        BY <3>1, StatusGrows, RoomNumbers DEF Grows
    <2>3. runs' = runs /\ job' = job /\ acked' = acked /\ dropped' = dropped
      BY <1>1 DEF Stores
    <2>4. x.queue = turn[r].queue /\ x.todo = turn[r].todo /\ turn[r].pc \notin {"result", "left"}
      BY <1>1 DEF Saves, SameHands
    <2>5. Delivered'
      BY <1>1, <2>2, <2>3, <2>4, DeliveredQuiet DEF Kept
    <2>. QED
      BY <2>2, <2>3, <2>5, AnnouncedStays DEF Kept
  <1>2. CASE \E c : Stores(r, c) /\ \E x \in TurnRec : Puts(r, x) /\ Saves(turn[r], x, c)
    BY <1>1, <1>2
  <1>3. CASE /\ turn[r].pc = "recover" /\ Local
             /\ \E x \in TurnRec : Puts(r, x) /\ SameHands(x, turn[r])
    <2>1. PICK x \in TurnRec : Puts(r, x) /\ SameHands(x, turn[r])
      BY <1>3
    <2>2. conv' = conv /\ runs' = runs /\ job' = job /\ acked' = acked /\ dropped' = dropped
      BY <1>3 DEF Local, history
    <2>3. Grows(conv, conv')
      BY <2>2 DEF Grows
    <2>4. Delivered'
      BY <1>3, <2>1, <2>2, <2>3, DeliveredQuiet DEF Kept, SameHands
    <2>. QED
      BY <2>2, <2>3, <2>4, AnnouncedStays DEF Kept
  <1>. QED
    BY <1>2, <1>3, PersistFacts, FinishFacts, RecoverFacts

\* Saves at a round boundary: results, announcements and the steer.
LEMMA BoundaryKeep ==
  ASSUME Shape, Kept, ~clash', NEW r \in Runs,
         TurnComplete(r) \/ TurnDrain(r) \/ TurnSteered(r) \/ TurnDiscard(r)
  PROVE  Kept'
  <1>1. runs' = runs /\ job' = job /\ acked' = acked /\ dropped' = dropped /\ conv \in Conversation
    BY RoomNumbers DEF TurnComplete, TurnDrain, TurnSteered, TurnDiscard, history
  <1>2. CASE TurnComplete(r)
    <2>1. PICK x \in TurnRec : /\ Puts(r, x) /\ x.pc = turn[r].pc
                               /\ x.todo = Tail(turn[r].todo) /\ x.queue = turn[r].queue
      BY <1>2, CompleteFacts
    <2>. DEFINE j == Head(turn[r].todo)
    <2>2. turn[r].snap = conv /\ conv' = Add(turn[r].snap, j)
      BY <1>2, FreshCopy DEF TurnComplete
    <2>3. turn[r].todo \in Seq(Jobs) /\ turn[r].todo # <<>>
      BY <1>2, TurnShape DEF TurnRec, TurnComplete
    <2>4. j \in Facts
      BY <2>3 DEF Facts
    <2>5. Grows(conv, conv') /\ Holds(conv'.log, j)
      BY <1>1, <2>2, <2>4, AddGrows
    <2>6. \A k : Holds(turn[r].todo, k) => k = j \/ Holds(Tail(turn[r].todo), k)
      BY <2>3, HoldsTail
    <2>. HIDE DEF j
    <2>7. Moves(r, x)
      BY <1>1, <2>1, <2>5, <2>6 DEF Moves, Carries, Grows
    <2>. QED
      BY <1>1, <2>5, <2>7, AnnouncedStays, DeliveredPut DEF Kept
  <1>3. CASE TurnDrain(r)
    <2>1. PICK x \in TurnRec : Puts(r, x) /\ SameHands(x, turn[r])
      BY <1>3, DrainFacts
    <2>2. Grows(conv, conv') /\ turn[r].pc = "drain"
      BY <1>1, <1>3, FreshCopy, DrainGrows DEF TurnDrain
    <2>3. Delivered'
      BY <1>1, <2>1, <2>2, DeliveredQuiet DEF Kept, SameHands
    <2>. QED
      BY <1>1, <2>2, <2>3, AnnouncedStays DEF Kept
  <1>4. CASE TurnSteered(r)
    <2>1. PICK x \in TurnRec : Puts(r, x) /\ x.todo = turn[r].todo /\ x.queue = turn[r].queue
      BY <1>4, SteeredFacts
    <2>2. turn[r].snap = conv /\ conv' = Add(turn[r].snap, turn[r].hand) /\ turn[r].pc = "steering"
      BY <1>4, FreshCopy DEF TurnSteered
    <2>3. turn[r].hand \in Facts
      <3>1. turn[r].hand \in Steers \cup {Nobody} /\ turn[r].hand # Nobody
        BY <2>2, TurnShape DEF TurnRec, Shape, Hands
      <3>. QED
        BY <3>1 DEF Facts
    <2>4. Grows(conv, conv')
      BY <1>1, <2>2, <2>3, AddGrows
    <2>5. Delivered'
      BY <1>1, <2>1, <2>2, <2>4, DeliveredQuiet DEF Kept
    <2>. QED
      BY <1>1, <2>4, <2>5, AnnouncedStays DEF Kept
  <1>5. CASE TurnDiscard(r)
    <2>1. PICK x \in TurnRec : Puts(r, x) /\ x.todo = turn[r].todo /\ x.queue = turn[r].queue
      BY <1>5, DiscardFacts
    <2>2. conv' = conv /\ turn[r].pc \in {"discard", "failed"}
      BY <1>5 DEF TurnDiscard
    <2>3. Grows(conv, conv')
      BY <2>2 DEF Grows
    <2>4. Delivered'
      BY <1>1, <2>1, <2>2, <2>3, DeliveredQuiet DEF Kept
    <2>. QED
      BY <1>1, <2>3, <2>4, AnnouncedStays DEF Kept
  <1>. QED
    BY <1>2, <1>3, <1>4, <1>5

\* The start and the end of a turn's work: what is queued goes into its hands.
LEMMA EdgeKeep ==
  ASSUME Shape, Kept, NEW r \in Runs, TurnEnter(r) \/ TurnCleanup(r) \/ TurnUnlock(r) \/ TurnWake(r)
  PROVE  Kept'
  <1>1. conv' = conv /\ job' = job /\ acked' = acked /\ dropped' = dropped
    BY DEF TurnEnter, TurnCleanup, TurnUnlock, TurnWake, history
  <1>2. Grows(conv, conv')
    BY <1>1 DEF Grows
  <1>3. Announced'
    BY <1>1, <1>2, AnnouncedStays DEF Kept
  <1>4. CASE TurnEnter(r) \/ TurnUnlock(r) \/ TurnWake(r)
    <2>1. PICK pc \in {"stream", "wake", "done"} : Goto(r, pc)
      BY <1>4 DEF TurnEnter, TurnUnlock, TurnWake
    <2>2. PICK x \in TurnRec : Puts(r, x) /\ SameHands(x, turn[r])
      BY <2>1, GotoFacts DEF Shape, TurnPcs, InTurn
    <2>3. runs' = runs /\ turn[r].pc \in {"enter", "unlock", "wake"}
      BY <1>4 DEF TurnEnter, TurnUnlock, TurnWake
    <2>4. Delivered'
      BY <1>1, <1>2, <2>2, <2>3, DeliveredQuiet DEF Kept, SameHands
    <2>. QED
      BY <1>3, <2>4 DEF Kept
  <1>5. CASE TurnCleanup(r)
    <2>1. PICK x \in TurnRec : Puts(r, x) /\ x.pc = "left" /\ x.todo = turn[r].queue
      BY <1>5, CleanupFacts
    <2>2. turn[r].pc = "cleanup" /\ runs' = runs \ {r}
      BY <1>5 DEF TurnCleanup
    <2>3. Moves(r, x)
      BY <1>1, <2>1, <2>2 DEF Moves, Carries
    <2>. QED
      BY <1>3, <2>3, DeliveredPut DEF Kept
  <1>. QED
    BY <1>4, <1>5

\* A fault gives results back to the queue or gives them up, a panic gives
\* up those in hand.
LEMMA FailureKeep ==
  ASSUME Shape, LockInv, Kept, NEW r \in Runs, TurnFault(r) \/ TurnPanic(r)
  PROVE  Kept'
  <1>1. conv' = conv /\ runs' = runs /\ acked' = acked /\ dropped' = dropped
    BY DEF TurnFault, TurnPanic, history
  <1>2. Grows(conv, conv')
    BY <1>1 DEF Grows
  <1>3. Announced'
    BY <1>1, <1>2, AnnouncedStays DEF Kept
  <1>4. \A j \in Jobs : job'[j].pc = "done" => job[j].pc = "done"
    BY FaultJobs
  <1>5. \A j \in Jobs : Holds(turn[r].todo, j) /\ job'[j].pc = "done"
           => TurnFault(r) /\ turn[r].pc # "left"
    BY FaultJobs
  <1>6. turn[r].todo \in Seq(Jobs) /\ turn[r].queue \in Seq(Jobs)
    BY TurnShape DEF TurnRec
  <1>7. CASE TurnFault(r)
    <2>1. PICK x \in TurnRec : /\ Puts(r, x)
                               /\ x.queue = IF turn[r].pc = "result" THEN turn[r].todo \o turn[r].queue
                                            ELSE turn[r].queue
      BY <1>7, FaultFacts
    <2>2. \A j : Holds(turn[r].todo, j) \/ Holds(turn[r].queue, j)
            => Holds(turn[r].todo \o turn[r].queue, j)
      BY <1>6, HoldsConcat
    <2>3. turn[r].pc = "result" => r \in runs
      BY DEF LockInv, OneRun, Listed, InTurn
    <2>4. Moves(r, x)
      BY <1>1, <1>4, <1>5, <2>1, <2>2, <2>3 DEF Moves, Carries
    <2>. QED
      BY <1>3, <2>4, DeliveredPut DEF Kept
  <1>8. CASE ~TurnFault(r)
    <2>1. PICK x \in TurnRec : Puts(r, x) /\ x.queue = turn[r].queue
      BY <1>8, PanicFacts
    <2>2. Moves(r, x)
      BY <1>1, <1>4, <1>5, <1>8, <2>1 DEF Moves, Carries
    <2>. QED
      BY <1>3, <2>2, DeliveredPut DEF Kept
  <1>. QED
    BY <1>7, <1>8

LEMMA SlotKeep ==
  ASSUME Shape, Kept
  PROVE  /\ \A r \in Runs : CancelSteer(r) => Kept'
         /\ \A s \in Steers : SteerLook(s) \/ SteerQueue(s) => Kept'
  <1>1. ASSUME NEW r \in Runs, NEW s \in Steers \cup {Nobody}, turn' = [turn EXCEPT ![r].steer = s],
               Others' = Others
        PROVE  Kept'
    <2>1. PICK x \in TurnRec : /\ Puts(r, x) /\ x.pc = turn[r].pc
                               /\ x.todo = turn[r].todo /\ x.queue = turn[r].queue
      BY <1>1, SlotFacts
    <2>2. conv' = conv /\ runs' = runs /\ job' = job /\ acked' = acked /\ dropped' = dropped
      BY <1>1 DEF Others, history
    <2>3. Grows(conv, conv')
      BY <2>2 DEF Grows
    <2>4. Delivered'
      BY <2>1, <2>2, <2>3, DeliveredQuiet DEF Kept
    <2>. QED
      BY <2>2, <2>3, <2>4, AnnouncedStays DEF Kept
  <1>2. ASSUME turn' = turn, Others' = Others PROVE Kept'
    <2>1. conv' = conv /\ runs' = runs /\ job' = job /\ acked' = acked /\ dropped' = dropped
      BY <1>2 DEF Others, history
    <2>. QED
      BY <1>2, <2>1, AnnouncedStays, DeliveredStays DEF Kept, Grows
  <1>3. ASSUME NEW r \in Runs, CancelSteer(r) PROVE Kept'
    BY <1>1, <1>3 DEF CancelSteer
  <1>4. ASSUME NEW s \in Steers, SteerLook(s) PROVE Kept'
    BY <1>2, <1>4 DEF SteerLook
  <1>5. ASSUME NEW s \in Steers, SteerQueue(s) PROVE Kept'
    <2>1. str[s].run \in Runs
      BY <1>5, RestFacts DEF RestOK, Copies, SteerQueue
    <2>2. turn' = turn \/ turn' = [turn EXCEPT ![str[s].run].steer = s]
      BY <1>5 DEF SteerQueue
    <2>3. Others' = Others
      BY <1>5 DEF SteerQueue
    <2>. QED
      BY <1>1, <1>2, <2>1, <2>2, <2>3
  <1>. QED
    BY <1>3, <1>4, <1>5

\* A turn that starts drains the queue.
LEMMA StartKeep ==
  ASSUME Shape, Kept, ~clash',
         \/ UserStart \/ UserLoad \/ UserSave
         \/ \E p \in Wakers : WakeEnter(p) \/ WakeTurn(p) \/ WakeGo(p)
  PROVE  Kept'
  <1>1. job' = job /\ acked' = acked /\ dropped' = dropped
    BY DEF UserStart, UserLoad, UserSave, WakeEnter, WakeTurn, WakeGo, history
  <1>2. CASE conv' = conv /\ turn' = turn /\ runs' = runs
    BY <1>1, <1>2, AnnouncedStays, DeliveredStays DEF Kept, Grows
  <1>3. ASSUME NEW snap, HasFresh, Launch,
               Save(snap, SetStatus(DrainPendingAnnouncements(snap), "running"))
        PROVE  Kept'
    <2>1. Grows(conv, conv')
      BY <1>3, FreshCopy, DrainGrows, RoomNumbers
    <2>2. PICK r \in Runs : /\ turn[r].pc = "new" /\ runs' = runs \cup {r}
                            /\ \E x \in TurnRec : Puts(r, x) /\ SameHands(x, turn[r])
      BY <1>3, LaunchFacts
    <2>3. PICK x \in TurnRec : Puts(r, x) /\ SameHands(x, turn[r])
      BY <2>2
    <2>4. runs \subseteq runs'
      BY <2>2
    <2>5. Delivered'
      BY <1>1, <2>1, <2>2, <2>3, <2>4, DeliveredQuiet DEF Kept, SameHands
    <2>. QED
      BY <1>1, <2>1, <2>5, AnnouncedStays DEF Kept
  <1>4. CASE UserStart \/ UserLoad
    BY <1>2, <1>4 DEF UserStart, UserLoad
  <1>5. CASE UserSave
    BY <1>2, <1>3, <1>5 DEF UserSave
  <1>6. ASSUME NEW p \in Wakers, WakeEnter(p) \/ WakeTurn(p) PROVE Kept'
    BY <1>2, <1>6 DEF WakeEnter, WakeTurn
  <1>7. ASSUME NEW p \in Wakers, WakeGo(p) PROVE Kept'
    BY <1>2, <1>3, <1>7 DEF WakeGo
  <1>. QED
    BY <1>4, <1>5, <1>6, <1>7

\* An announcement that is acknowledged is queued; what the full queue loses
\* is dropped.
LEMMA PubKeep ==
  ASSUME Shape, Kept, ~clash', NEW n \in Notes, PubLoad(n) \/ PubSave(n)
  PROVE  Kept'
  <1>1. turn' = turn /\ runs' = runs /\ job' = job /\ conv \in Conversation
    BY RoomNumbers DEF PubLoad, PubSave
  <1>2. CASE conv' = conv /\ acked' = acked /\ dropped' = dropped
    BY <1>1, <1>2, AnnouncedStays, DeliveredStays DEF Kept, Grows
  <1>3. ASSUME Save(pub[n].snap, QueueAnnouncement(pub[n].snap, n)), acked' = acked \cup {n},
               dropped' = LET c == QueueAnnouncement(pub[n].snap, n) IN
                          IF Len(c.pend) > Len(pub[n].snap.pend) THEN dropped
                          ELSE dropped \cup {pub[n].snap.pend[1]}
        PROVE  Kept'
    <2>1. pub[n].snap = conv /\ conv' = QueueAnnouncement(conv, n)
      BY <1>3, FreshCopy
    <2>2. /\ Holds(conv'.pend, n) /\ conv'.log = conv.log
          /\ \A f : Holds(conv.pend, f) =>
                Holds(conv'.pend, f) \/ (~(Len(conv'.pend) > Len(conv.pend)) /\ f = conv.pend[1])
      BY <1>1, <2>1, QueueGrows
    <2>3. dropped' = IF Len(conv'.pend) > Len(conv.pend) THEN dropped
                     ELSE dropped \cup {conv.pend[1]}
      BY <1>3, <2>1
    <2>4. Announced'
      BY <1>3, <2>2, <2>3 DEF Kept, Announced
    <2>5. Delivered'
      BY <1>1, <2>2, DeliveredStays DEF Kept
    <2>. QED
      BY <2>4, <2>5 DEF Kept
  <1>4. CASE PubLoad(n)
    BY <1>2, <1>4 DEF PubLoad, history
  <1>5. CASE PubSave(n)
    BY <1>2, <1>3, <1>5 DEF PubSave, history
  <1>. QED
    BY <1>4, <1>5

\* A result is accepted by a turn's queue or saved by its deliverer.
LEMMA JobKeep ==
  ASSUME Shape, Kept, ~clash', NEW j \in Jobs, JobDone(j) \/ JobLoad(j) \/ JobSave(j)
  PROVE  Kept'
  <1>1. runs' = runs /\ acked' = acked /\ dropped' = dropped /\ conv \in Conversation
    BY RoomNumbers DEF JobDone, JobLoad, JobSave, history
  <1>2. ASSUME NEW pc, NEW snap, SetJobPc(j, pc, snap), pc # "done"
        PROVE  \A k \in Jobs : job'[k].pc = "done" => job[k].pc = "done"
    BY <1>2, RestFacts DEF SetJobPc, RestOK
  <1>3. ASSUME SetJobPc(j, "done", NoConv)
        PROVE  \A k \in Jobs : job'[k].pc = "done" => job[k].pc = "done" \/ k = j
    BY <1>3, RestFacts DEF SetJobPc, RestOK
  <1>4. ASSUME NEW pc, NEW snap, SetJobPc(j, pc, snap), pc # "done", conv' = conv, turn' = turn
        PROVE  Kept'
    BY <1>1, <1>2, <1>4, AnnouncedStays, DeliveredStays DEF Kept, Grows
  <1>5. ASSUME NEW r \in runs, turn' = [turn EXCEPT ![r].queue = Append(@, j)],
               SetJobPc(j, "done", NoConv), conv' = conv
        PROVE  Kept'
    <2>1. r \in Runs
      BY RestFacts DEF RestOK
    <2>2. PICK x \in TurnRec : /\ Puts(r, x) /\ x.pc = turn[r].pc
                               /\ x.todo = turn[r].todo /\ x.queue = Append(turn[r].queue, j)
      BY <1>5, <2>1, EnqueueFacts
    <2>3. turn[r].queue \in Seq(Jobs)
      BY <2>1, TurnShape DEF TurnRec
    <2>4. \A k : Holds(Append(turn[r].queue, j), k) <=> Holds(turn[r].queue, k) \/ k = j
      BY <2>3, HoldsAppend
    <2>5. Moves(r, x)
      BY <1>1, <1>3, <1>5, <2>2, <2>4 DEF Moves, Carries
    <2>. QED
      BY <1>1, <1>5, <2>1, <2>5, DeliveredPut, AnnouncedStays DEF Kept, Grows
  <1>6. ASSUME Save(job[j].snap, Add(job[j].snap, j)), SetJobPc(j, "done", NoConv), turn' = turn
        PROVE  Kept'
    <2>1. conv' = Add(conv, j)
      BY <1>6, FreshCopy
    <2>2. Grows(conv, conv') /\ Holds(conv'.log, j)
      BY <1>1, <2>1, AddGrows DEF Facts
    <2>3. Delivered'
      BY <1>1, <1>3, <1>6, <2>2, DeliveredStays DEF Kept, Grows
    <2>. QED
      BY <1>1, <2>2, <2>3, AnnouncedStays DEF Kept
  <1>7. CASE JobDone(j)
    BY <1>4, <1>5, <1>7 DEF JobDone
  <1>8. CASE JobLoad(j)
    BY <1>4, <1>8 DEF JobLoad
  <1>9. CASE JobSave(j)
    BY <1>4, <1>6, <1>9 DEF JobSave
  <1>. QED
    BY <1>7, <1>8, <1>9

LEMMA CmpKeep ==
  ASSUME Shape, Kept, ~clash',
         CmpStart \/ CmpLoad \/ CmpRefresh \/ CmpSave \/ CmpFault \/ CmpClear
  PROVE  Kept'
  <1>1. turn' = turn /\ runs' = runs /\ job' = job /\ acked' = acked /\ dropped' = dropped
    BY DEF CmpStart, CmpLoad, CmpRefresh, CmpSave, CmpFault, CmpClear, CmpStep, history
  <1>2. conv' = conv
    BY FreshCopy DEF CmpStart, CmpLoad, CmpRefresh, CmpSave, CmpFault, CmpClear
  <1>. QED
    BY <1>1, <1>2, AnnouncedStays, DeliveredStays DEF Kept, Grows

\* A restart loses the queues of the turns, not what is stored.
LEMMA CrashKeep ==
  ASSUME Shape, Kept, Crash
  PROVE  Kept'
  <1>1. conv'.pend = conv.pend /\ conv'.log = conv.log /\ acked' = acked /\ dropped' = dropped
    BY CrashFacts, StatusFacts, RoomNumbers DEF Crash, history
  <1>2. Announced'
    BY <1>1 DEF Kept, Announced
  <1>3. \A j \in Jobs : job'[j].pc = "done" => Holds(conv.log, j)
    BY CrashFacts DEF InLog, Holds
  <1>4. Delivered'
    BY <1>1, <1>3 DEF Delivered, Accounted
  <1>. QED
    BY <1>2, <1>4 DEF Kept

LEMMA KeepParts ==
  /\ Conserved <=> clash \/ Kept
  /\ (clash \/ Kept)' <=> Conserved'
  BY DEF Conserved, Kept, Announced, Delivered, Accounted, InPend, InLog, Holds

LEMMA KeepInit == Init => Conserved
  BY DEF Init, Conserved, Idle

LEMMA KeepStep == Shape /\ LockInv /\ Conserved /\ [Next]_vars => Conserved'
  <1>. SUFFICES ASSUME Shape, LockInv, Conserved, [Next]_vars, ~clash' PROVE Kept'
    BY KeepParts
  <1>1. Kept
    BY ClashStays, KeepParts
  <1>2. ASSUME NEW r \in Runs, TurnStep(r) PROVE Kept'
    BY <1>1, <1>2, MemoryKeep, StoringKeep, BoundaryKeep, EdgeKeep DEF TurnStep
  <1>3. ASSUME NEW r \in Runs,
               \/ TurnCompact(r) \/ AskAnswer(r) \/ TurnFault(r) \/ TurnPanic(r)
               \/ UserStop(r) \/ CancelSteer(r)
        PROVE  Kept'
    BY <1>1, <1>3, MemoryKeep, FailureKeep, SlotKeep
  <1>4. CASE UNCHANGED vars
    BY <1>1, <1>4, AnnouncedStays, DeliveredStays DEF Kept, Grows, vars, goroutines, history
  <1>5. CASE Next
    BY <1>1, <1>2, <1>3, <1>5, StartKeep, PubKeep, JobKeep, SlotKeep, CmpKeep, CrashKeep DEF Next
  <1>. QED
    BY <1>4, <1>5

\* Through drains, failures, panics, compactions and crashes, an acknowledged
\* announcement is queued, injected or was dropped by the cap, and a result a
\* turn accepted is in its queue, in its hands or in the transcript, unless a
\* stale copy was saved (queueAnnouncement, DrainAnnouncements, DeliverRunDone).
THEOREM ConservedAlways == Spec => []Conserved
  BY ShapeInit, ShapeStep, LockInit, LockStep, KeepInit, KeepStep, PTL DEF Spec

=============================================================================

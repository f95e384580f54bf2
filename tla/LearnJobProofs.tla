---------------------------- MODULE LearnJobProofs ----------------------------
(***************************************************************************)
(* Proofs about LearnJob for every number of jobs, messages, harms and     *)
(* writers without the turn lock: the cursor leaves nothing unreviewed     *)
(* behind while nothing takes messages away (CursorHonest), and no message *)
(* is reviewed twice unless a cursor was lost, a compaction outran it, or  *)
(* a notice or rename wrote an old conversation back (ReviewedOnce).       *)
(***************************************************************************)
EXTENDS LearnJob, SequenceTheorems, TLAPS

-----------------------------------------------------------------------------
(* The inductive invariant.                                                *)

Flags ==
    turn \in BOOLEAN /\ again \in BOOLEAN /\ slipped \in BOOLEAN /\ outrun \in BOOLEAN
    /\ lost \in BOOLEAN /\ back \in BOOLEAN

DataOK ==
    /\ msgs \in Seq(Nat) /\ cursor \in Nat
    /\ row \in [Jobs -> {"none", "queued", "running", "done", "error"}] /\ exp \subseteq Jobs
    /\ active \subseteq Jobs
    /\ job \in [Jobs -> JobRec]
    /\ copy \in [Writers -> CopyRec]
    /\ used \in [Harms \cup {"msg"} -> Nat]
    /\ reviewed \subseteq Nat

\* RecordExperience and the turn lock let one job at a time run.
OneJob == \A j \in Jobs : job[j].pc \notin {"none", "ended"} => active = {j}

\* Messages are numbered as they come; a number is in a transcript, stored or copied, at
\* most once, and only a number that was given is reviewed.  0 is a summary.
Given(q) == \A i \in 1..Len(q) : q[i] <= used["msg"]
Unique(q) == \A i, k \in 1..Len(q) : q[i] = q[k] /\ q[i] # 0 => i = k

Numbered ==
    /\ Given(msgs) /\ Unique(msgs)
    /\ \A w \in Writers : Given(copy[w].msgs) /\ Unique(copy[w].msgs)
    /\ \A m \in reviewed : m # 0 /\ m <= used["msg"]

\* The review of j is done and its cursor is still to come.
Owing(j) == job[j].result = "reviewed" /\ job[j].pc \in {"finish", "advance"}

\* A review has a result when it is over, and only then; only a review moves the cursor.
Results ==
    \A j \in Jobs :
        /\ job[j].pc \in {"none", "load", "capture", "start", "review"} => job[j].result = "none"
        /\ job[j].pc = "advance" => job[j].result = "reviewed"

\* The first n messages of q are reviewed.
Seen(q, n) ==
    /\ n <= Len(q)
    /\ \A i \in 1..Len(q) : i <= n => q[i] \in reviewed \cup {0}

\* Nothing behind the cursor is unreviewed, in the stored conversation and in the copies
\* that may still be saved over it, and a review that is owing its cursor covered what the
\* cursor will skip.
Covered ==
    used["compact"] = 0 /\ ~lost =>
        /\ Seen(msgs, cursor)
        /\ \A w \in Writers : copy[w].pc = "held" => Seen(copy[w].msgs, copy[w].cursor)
        /\ \A j \in Jobs :
              /\ job[j].pc \in {"start", "review", "finish", "advance"} =>
                    Seen(msgs, job[j].from) /\ job[j].to <= Len(msgs)
              /\ Owing(j) => \A i \in 1..Len(msgs) :
                    job[j].from < i /\ i <= job[j].to => msgs[i] \in reviewed \cup {0}

\* Nothing before the cursor is reviewed, but for the review that is owing its cursor.
Ahead ==
    ~slipped /\ ~outrun /\ ~lost /\ ~back =>
        /\ ~again /\ cursor <= Len(msgs)
        /\ \A j \in Jobs : job[j].pc \in {"start", "review"} => job[j].from = cursor
        /\ \A i \in 1..Len(msgs) : cursor < i /\ msgs[i] \in reviewed =>
              \E j \in Jobs : Owing(j) /\ i <= job[j].to

LearnInv == Flags /\ DataOK /\ OneJob /\ Numbered /\ Results /\ Covered /\ Ahead

-----------------------------------------------------------------------------
(* Flags.                                                                  *)

LEMMA FlagsKept ==
  ASSUME Flags, Next
  PROVE  Flags'
  <1>1. CASE TurnBegin \/ TurnMessage \/ TurnEnd
    BY <1>1, Zenon DEF Flags, TurnBegin, TurnMessage, TurnEnd, TurnEndQuiet, TurnEndFails, TurnEndQueues, history
  <1>2. CASE Compact
    BY <1>2, Zenon DEF Flags, Compact
  <1>3. ASSUME NEW j \in Jobs, JobLoad(j) \/ JobCapture(j) \/ JobStart(j) \/ JobFinish(j) \/ JobClear(j)
        PROVE  Flags'
    BY <1>3, Zenon DEF Flags, JobLoad, JobCapture, JobStart, JobFinish, JobClear, roomVars, history
  <1>4. ASSUME NEW j \in Jobs, JobReview(j)
        PROVE  Flags'
    BY <1>4, Zenon DEF Flags, JobReview, roomVars
  <1>5. ASSUME NEW j \in Jobs, JobAdvance(j)
        PROVE  Flags'
    BY <1>5, Zenon DEF Flags, JobAdvance
  <1>6. ASSUME NEW j \in Jobs, JobPanic(j) \/ DeleteJob(j) \/ DeleteExperience(j)
        PROVE  Flags'
    BY <1>6, Zenon DEF Flags, JobPanic, DeleteJob, DeleteExperience, roomVars, history
  <1>7. CASE Restart
    BY <1>7, Zenon DEF Flags, Restart
  <1>8. ASSUME NEW w \in Writers, CopyLoad(w) \/ CopyDrop(w)
        PROVE  Flags'
    BY <1>8, Zenon DEF Flags, CopyLoad, CopyDrop, history
  <1>9. ASSUME NEW w \in Writers, CopySave(w)
        PROVE  Flags'
    BY <1>9, Zenon DEF Flags, CopySave
  <1>. QED
    BY <1>1, <1>2, <1>3, <1>4, <1>5, <1>6, <1>7, <1>8, <1>9 DEF Next, Running

-----------------------------------------------------------------------------
(* What the operations do to their variables.                              *)

LEMMA CountsFacts ==
  ASSUME DataOK, NEW b \in Harms \cup {"msg"}, Counts(b)
  PROVE  /\ used' \in [Harms \cup {"msg"} -> Nat]
         /\ used'[b] = used[b] + 1
         /\ \A c \in Harms \cup {"msg"} : c # b => used'[c] = used[c]
  BY DEF DataOK, Counts

\* A harm is no message.
LEMMA HarmFacts ==
  ASSUME DataOK, NEW b \in Harms, Spends(b)
  PROVE  /\ used' \in [Harms \cup {"msg"} -> Nat]
         /\ used'["msg"] = used["msg"]
         /\ used'["compact"] = IF b = "compact" THEN used["compact"] + 1 ELSE used["compact"]
  <1>1. "compact" \in Harms /\ b # "msg"
    BY DEF Harms
  <1>. QED
    BY <1>1, CountsFacts DEF Spends

LEMMA GoesFacts ==
  ASSUME DataOK, NEW j \in Jobs,
         NEW pc \in {"none", "load", "capture", "start", "review", "finish", "advance", "clear", "ended"},
         Goes(j, pc)
  PROVE  /\ job' \in [Jobs -> JobRec]
         /\ job'[j].pc = pc /\ job'[j].result = job[j].result
         /\ job'[j].from = job[j].from /\ job'[j].to = job[j].to
         /\ \A k \in Jobs : k # j => job'[k] = job[k]
  <1>1. job \in [Jobs -> JobRec]
    BY DEF DataOK
  <1>. DEFINE x == [job[j] EXCEPT !.pc = pc]
  <1>2. /\ x \in JobRec /\ x.pc = pc /\ x.result = job[j].result /\ x.from = job[j].from /\ x.to = job[j].to
    BY <1>1 DEF JobRec
  <1>3. job' = [job EXCEPT ![j] = x]
    BY DEF Goes
  <1>. HIDE DEF x
  <1>. QED
    BY <1>1, <1>2, <1>3

LEMMA SavedFacts ==
  ASSUME DataOK, NEW j \in Jobs, NEW status \in {"none", "queued", "running", "done", "error"}, Saved(j, status)
  PROVE  /\ row' \in [Jobs -> {"none", "queued", "running", "done", "error"}]
         /\ used' \in [Harms \cup {"msg"} -> Nat]
         /\ used'["msg"] = used["msg"] /\ used'["compact"] = used["compact"]
  <1>1. "fault" \in Harms
    BY DEF Harms
  <1>2. CASE row' = [row EXCEPT ![j] = status] /\ used' = used
    BY <1>2 DEF DataOK
  <1>3. CASE row' = row /\ Spends("fault")
    BY <1>1, <1>3, HarmFacts DEF DataOK
  <1>. QED
    BY <1>2, <1>3 DEF Saved

\* The rest of the invariant.
Kept == OneJob /\ Numbered /\ Results /\ Covered /\ Ahead

\* A step that leaves the transcript, the cursor and the jobs alone.
LEMMA NothingMoves ==
  ASSUME LearnInv, used'["msg"] = used["msg"], used'["compact"] = used["compact"],
         UNCHANGED <<msgs, cursor, copy, active, job, history>>
  PROVE  Kept'
  <1>1. OneJob' /\ Results' /\ Ahead'
    BY DEF LearnInv, OneJob, Results, Ahead, Owing, history
  <1>2. Numbered'
    BY DEF LearnInv, Numbered, Given, Unique, history
  <1>3. Covered'
    BY DEF LearnInv, Covered, Seen, Owing, history
  <1>. QED
    BY <1>1, <1>2, <1>3 DEF Kept

\* A job moves to another line of RunLearningJob, after which it owes what it owed before.
LEMMA JobMoves ==
  ASSUME LearnInv, used'["msg"] = used["msg"], used'["compact"] = used["compact"],
         UNCHANGED <<msgs, cursor, copy, history>>,
         NEW j \in Jobs, \A k \in Jobs : k # j => job'[k] = job[k],
         job'[j].result = job[j].result, job'[j].from = job[j].from, job'[j].to = job[j].to,
         Results', OneJob', Owing(j)' <=> Owing(j),
         job'[j].pc \in {"start", "review"} => job[j].pc \in {"start", "review"},
         job'[j].pc \in {"finish", "advance"} => job[j].pc \in {"start", "review", "finish", "advance"}
  PROVE  Kept'
  <1>1. Numbered'
    BY DEF LearnInv, Numbered, Given, Unique, history
  <1>2. \A q, n : Seen(q, n) <=> Seen(q, n)'
    BY DEF Seen, history
  <1>. QED
    BY <1>1, <1>2 DEF LearnInv, Kept, Covered, Ahead, Owing, history

-----------------------------------------------------------------------------
(* The steps preserve the invariant.                                       *)

LEMMA HarmKinds == "compact" \in Harms /\ "fault" \in Harms /\ "crash" \in Harms /\ "del" \in Harms
  BY DEF Harms

LEMMA QuietKeeps ==
  ASSUME LearnInv, TurnBegin \/ TurnEndQuiet \/ TurnEndFails
  PROVE  DataOK' /\ Kept'
  <1>0. DataOK
    BY DEF LearnInv
  <1>1. /\ UNCHANGED <<msgs, cursor, copy, active, job, history, storeVars>>
        /\ used' = used \/ Spends("fault")
    BY DEF TurnBegin, TurnEndQuiet, TurnEndFails
  <1>2. /\ used' \in [Harms \cup {"msg"} -> Nat]
        /\ used'["msg"] = used["msg"] /\ used'["compact"] = used["compact"]
    BY <1>0, <1>1, HarmFacts, HarmKinds DEF DataOK
  <1>3. DataOK'
    BY <1>0, <1>1, <1>2 DEF DataOK, storeVars, history
  <1>. QED
    BY <1>1, <1>2, <1>3, NothingMoves

LEMMA DeleteKeeps ==
  ASSUME LearnInv, NEW j \in Jobs, DeleteJob(j) \/ DeleteExperience(j)
  PROVE  DataOK' /\ Kept'
  <1>0. DataOK
    BY DEF LearnInv
  <1>1. /\ UNCHANGED <<msgs, cursor, copy, active, job, history>> /\ Spends("del")
        /\ row' = [row EXCEPT ![j] = "none"] /\ exp' \subseteq exp
    BY DEF DeleteJob, DeleteExperience, roomVars
  <1>2. /\ used' \in [Harms \cup {"msg"} -> Nat]
        /\ used'["msg"] = used["msg"] /\ used'["compact"] = used["compact"]
    BY <1>0, <1>1, HarmFacts, HarmKinds
  <1>3. DataOK'
    BY <1>0, <1>1, <1>2 DEF DataOK, history
  <1>. QED
    BY <1>1, <1>2, <1>3, NothingMoves

\* A new message is at the end, and has a number of its own.
LEMMA TurnMessageKeeps ==
  ASSUME LearnInv, TurnMessage
  PROVE  DataOK' /\ Kept'
  <1>0. DataOK /\ msgs \in Seq(Nat) /\ Len(msgs) \in Nat /\ cursor \in Nat /\ used["msg"] \in Nat
    BY LenProperties DEF LearnInv, DataOK
  <1>1. /\ used' \in [Harms \cup {"msg"} -> Nat] /\ used'["msg"] = used["msg"] + 1
        /\ used'["compact"] = used["compact"]
    BY <1>0, CountsFacts, HarmKinds DEF TurnMessage, Harms
  <1>2. /\ msgs' \in Seq(Nat) /\ Len(msgs') = Len(msgs) + 1
        /\ \A i \in 1..Len(msgs) : msgs'[i] = msgs[i]
        /\ msgs'[Len(msgs) + 1] = used["msg"] + 1
    BY <1>0, <1>1, AppendProperties DEF TurnMessage
  <1>3. UNCHANGED <<cursor, copy, row, exp, active, job, reviewed, again, slipped, outrun, lost, back>>
    BY DEF TurnMessage, storeVars, history
  <1>10. \A i \in 1..Len(msgs') : i \in 1..Len(msgs) \/ i = Len(msgs) + 1
    BY <1>0, <1>2
  <1>4. DataOK'
    BY <1>0, <1>1, <1>2, <1>3 DEF DataOK
  <1>5. OneJob' /\ Results'
    BY <1>3 DEF LearnInv, OneJob, Results
  <1>6. Numbered'
    <2>1. \A i \in 1..Len(msgs) : msgs[i] \in Nat
      BY <1>0, ElementOfSeq
    <2>2. \A m \in reviewed : m \in Nat
      BY <1>0 DEF DataOK
    <2>5. /\ \A i \in 1..Len(msgs) : msgs[i] <= used["msg"]
          /\ \A i, k \in 1..Len(msgs) : msgs[i] = msgs[k] /\ msgs[i] # 0 => i = k
      BY DEF LearnInv, Numbered, Given, Unique
    <2>6. ASSUME NEW i \in 1..Len(msgs)
          PROVE  msgs'[i] = msgs[i] /\ msgs[i] \in Nat /\ msgs[i] <= used["msg"]
      BY <1>2, <2>1, <2>5
    <2>7. used["msg"] + 1 \in Nat /\ ~(used["msg"] + 1 <= used["msg"])
      BY <1>0
    <2>3. ASSUME NEW i \in 1..Len(msgs') PROVE msgs'[i] <= used["msg"] + 1
      <3>1. CASE i \in 1..Len(msgs)
        BY <1>0, <2>6, <3>1
      <3>2. CASE i = Len(msgs) + 1
        BY <1>0, <1>2, <3>2
      <3>. QED
        BY <1>10, <3>1, <3>2
    <2>4. ASSUME NEW i \in 1..Len(msgs'), NEW k \in 1..Len(msgs'), msgs'[i] = msgs'[k], msgs'[i] # 0
          PROVE  i = k
      <3>1. CASE i \in 1..Len(msgs) /\ k \in 1..Len(msgs)
        BY <2>4, <2>5, <2>6, <3>1
      <3>2. CASE i \in 1..Len(msgs) /\ k = Len(msgs) + 1
        BY <1>2, <2>4, <2>6, <2>7, <3>2
      <3>3. CASE k \in 1..Len(msgs) /\ i = Len(msgs) + 1
        BY <1>2, <2>4, <2>6, <2>7, <3>3
      <3>. QED
        BY <1>10, <3>1, <3>2, <3>3
    <2>8. ASSUME NEW w \in Writers PROVE Given(copy[w].msgs)' /\ Unique(copy[w].msgs)'
      <3>1. copy[w].msgs \in Seq(Nat)
        BY <1>0 DEF DataOK, CopyRec
      <3>2. \A i \in 1..Len(copy[w].msgs) : copy[w].msgs[i] \in Nat
        BY <3>1, ElementOfSeq
      <3>3. Given(copy[w].msgs) /\ Unique(copy[w].msgs)
        BY DEF LearnInv, Numbered
      <3>. QED
        BY <1>0, <1>1, <1>3, <3>2, <3>3 DEF Given, Unique
    <2>9. Given(msgs)' /\ Unique(msgs)'
      BY <1>1, <2>3, <2>4 DEF Given, Unique
    <2>10. \A m \in reviewed' : m # 0 /\ m <= used'["msg"]
      BY <1>0, <1>1, <1>3, <2>2 DEF LearnInv, Numbered
    <2>. QED
      BY <2>8, <2>9, <2>10 DEF Numbered
  <1>7. \A j \in Jobs : job[j].from \in Nat /\ job[j].to \in Nat
    BY <1>0 DEF DataOK, JobRec
  <1>8. Covered'
    <2>. SUFFICES ASSUME used["compact"] = 0, ~lost PROVE Covered'
      BY <1>1, <1>3 DEF Covered
    <2>1. ASSUME NEW n \in Nat, Seen(msgs, n) PROVE Seen(msgs, n)'
      <3>1. n <= Len(msgs')
        BY <1>0, <1>2, <2>1 DEF Seen
      <3>2. ASSUME NEW i \in 1..Len(msgs'), i <= n PROVE msgs'[i] \in reviewed \cup {0}
        <4>1. i \in 1..Len(msgs)
          BY <1>0, <1>2, <2>1, <3>2 DEF Seen
        <4>. QED
          BY <1>2, <2>1, <3>2, <4>1 DEF Seen
      <3>. QED
        BY <1>3, <3>1, <3>2 DEF Seen
    <2>2. ASSUME NEW j \in Jobs, job[j].pc \in {"start", "review", "finish", "advance"}
          PROVE  Seen(msgs, job[j].from)' /\ job[j].to <= Len(msgs) /\ job[j].to <= Len(msgs')
      <3>1. Seen(msgs, job[j].from) /\ job[j].to <= Len(msgs)
        BY <2>2 DEF LearnInv, Covered
      <3>2. Seen(msgs, job[j].from)'
        BY <1>3, <1>7, <2>1, <3>1
      <3>. QED
        BY <1>0, <1>2, <1>7, <3>1, <3>2
    <2>3. ASSUME NEW j \in Jobs, Owing(j), NEW i \in 1..Len(msgs), job[j].from < i, i <= job[j].to
          PROVE  msgs[i] \in reviewed \cup {0}
      BY <2>3 DEF LearnInv, Covered
    <2>4. \A j \in Jobs : Owing(j) => job[j].to <= Len(msgs)
      BY <2>2 DEF Owing
    <2>5. Seen(msgs, cursor)'
      <3>1. Seen(msgs, cursor)
        BY DEF LearnInv, Covered
      <3>. QED
        BY <1>0, <1>3, <2>1, <3>1
    <2>6. ASSUME NEW w \in Writers, copy[w].pc = "held" PROVE Seen(copy[w].msgs, copy[w].cursor)'
      BY <1>3, <2>6 DEF LearnInv, Covered, Seen
    <2>7. ASSUME NEW j \in Jobs, Owing(j), NEW i \in 1..Len(msgs'), job[j].from < i, i <= job[j].to
          PROVE  msgs'[i] \in reviewed \cup {0}
      <3>1. i \in 1..Len(msgs)
        BY <1>0, <1>2, <1>7, <2>4, <2>7
      <3>2. msgs'[i] = msgs[i]
        BY <1>2, <3>1
      <3>. QED
        BY <2>3, <2>7, <3>1, <3>2
    <2>8. \A j \in Jobs : Owing(j)' <=> Owing(j)
      BY <1>3 DEF Owing
    <2>. QED
      BY <1>3, <2>2, <2>5, <2>6, <2>7, <2>8 DEF Covered
  <1>9. Ahead'
    <2>1. used["msg"] + 1 \notin reviewed
      BY <1>0 DEF LearnInv, Numbered, DataOK
    <2>. SUFFICES ASSUME ~slipped, ~outrun, ~lost, ~back PROVE Ahead'
      BY <1>3 DEF Ahead
    <2>2. cursor <= Len(msgs')
      BY <1>0, <1>2 DEF LearnInv, Ahead
    <2>3. ASSUME NEW i \in 1..Len(msgs'), cursor < i, msgs'[i] \in reviewed
          PROVE  \E j \in Jobs : Owing(j) /\ i <= job[j].to
      <3>1. i \in 1..Len(msgs)
        BY <1>2, <1>10, <2>1, <2>3
      <3>. QED
        BY <1>2, <2>3, <3>1 DEF LearnInv, Ahead
    <2>. QED
      BY <1>3, <2>2, <2>3 DEF LearnInv, Ahead, Owing
  <1>. QED
    BY <1>4, <1>5, <1>6, <1>8, <1>9 DEF Kept

\* What a compaction keeps: a summary, and a suffix that moves to the front.
LEMMA SuffixFacts ==
  ASSUME NEW q \in Seq(Nat), NEW k \in 1..Len(q)
  PROVE  LET s == <<0>> \o SubSeq(q, k + 1, Len(q)) IN
         /\ s \in Seq(Nat) /\ Len(s) = Len(q) - k + 1
         /\ s[1] = 0
         /\ \A i \in 2..Len(s) : s[i] = q[i + k - 1]
  <1>. DEFINE b == SubSeq(q, k + 1, Len(q))
              s == <<0>> \o b
  <1>1. Len(q) \in Nat /\ \A i \in 1..Len(q) : q[i] \in Nat
    BY LenProperties, ElementOfSeq
  <1>2. /\ b \in Seq(Nat) /\ Len(b) = Len(q) - k
        /\ \A i \in 1..Len(q) - k : b[i] = q[k + i]
    <2>1. \A i \in k + 1..Len(q) : q[i] \in Nat
      BY <1>1
    <2>2. /\ b \in Seq(Nat) /\ Len(b) = IF k + 1 <= Len(q) THEN Len(q) - (k + 1) + 1 ELSE 0
          /\ \A i \in 1..Len(q) - (k + 1) + 1 : b[i] = q[k + 1 + i - 1]
      BY <1>1, <2>1, SubSeqProperties
    <2>. QED
      BY <1>1, <2>2
  <1>. HIDE DEF b
  <1>3. <<0>> \in Seq(Nat) /\ Len(<<0>>) = 1 /\ <<0>>[1] = 0
    OBVIOUS
  <1>4. /\ s \in Seq(Nat) /\ Len(s) = 1 + Len(b)
        /\ \A i \in 1..1 + Len(b) : s[i] = IF i <= 1 THEN <<0>>[i] ELSE b[i - 1]
    BY ZenonT(60), <1>2, <1>3, ConcatProperties
  <1>5. s[1] = 0 /\ Len(s) = Len(q) - k + 1
    BY <1>1, <1>2, <1>3, <1>4
  <1>6. ASSUME NEW i \in 2..Len(s) PROVE s[i] = q[i + k - 1]
    <2>1. i - 1 \in 1..Len(q) - k /\ i \in 1..1 + Len(b) /\ ~(i <= 1)
      BY <1>1, <1>2, <1>5
    <2>2. s[i] = b[i - 1] /\ b[i - 1] = q[k + (i - 1)]
      BY <1>2, <1>4, <2>1
    <2>3. k + (i - 1) = i + k - 1
      OBVIOUS
    <2>. QED
      BY <2>2, <2>3
  <1>. HIDE DEF s
  <1>7. QED
    BY <1>4, <1>5, <1>6 DEF s, b

\* A compaction moves no message behind its place.
LEMMA CompactKeeps ==
  ASSUME LearnInv, Compact
  PROVE  DataOK' /\ Kept'
  <1>0. DataOK /\ msgs \in Seq(Nat) /\ Len(msgs) \in Nat /\ cursor \in Nat /\ used["compact"] \in Nat
    BY LenProperties, HarmKinds DEF LearnInv, DataOK
  <1>1. /\ used' \in [Harms \cup {"msg"} -> Nat] /\ used'["msg"] = used["msg"]
        /\ used'["compact"] = used["compact"] + 1
    BY <1>0, HarmFacts, HarmKinds DEF Compact
  <1>2. PICK k \in 1..Len(msgs) : msgs' = <<0>> \o SubSeq(msgs, k + 1, Len(msgs))
    BY DEF Compact
  <1>3. /\ msgs' \in Seq(Nat) /\ Len(msgs') = Len(msgs) - k + 1 /\ msgs'[1] = 0
        /\ \A i \in 2..Len(msgs') : msgs'[i] = msgs[i + k - 1]
    BY <1>0, <1>2, SuffixFacts
  <1>4. UNCHANGED <<cursor, copy, row, exp, active, job, reviewed, again, slipped, lost, back>>
    BY DEF Compact, storeVars
  <1>5. \A i \in 2..Len(msgs') : i + k - 1 \in 1..Len(msgs) /\ i <= i + k - 1
    BY <1>0, <1>3
  <1>6. DataOK'
    BY <1>0, <1>1, <1>3, <1>4 DEF DataOK
  <1>7. OneJob' /\ Results'
    BY <1>4 DEF LearnInv, OneJob, Results
  <1>8. Numbered'
    <2>0. used["msg"] \in Nat
      BY <1>0 DEF DataOK
    <2>1. \A i \in 1..Len(msgs') : i = 1 \/ i \in 2..Len(msgs')
      BY <1>0, <1>3
    <2>7. \A i \in 1..Len(msgs) : msgs[i] <= used["msg"]
      BY DEF LearnInv, Numbered, Given
    <2>2. ASSUME NEW i \in 1..Len(msgs') PROVE msgs'[i] <= used["msg"]
      <3>1. CASE i = 1
        BY <1>3, <2>0, <3>1
      <3>2. CASE i \in 2..Len(msgs')
        BY <1>3, <1>5, <2>7, <3>2
      <3>. QED
        BY <2>1, <3>1, <3>2
    <2>3. ASSUME NEW i \in 1..Len(msgs'), NEW n \in 1..Len(msgs'), msgs'[i] = msgs'[n], msgs'[i] # 0
          PROVE  i = n
      <3>1. i \in 2..Len(msgs') /\ n \in 2..Len(msgs')
        BY <1>3, <2>1, <2>3
      <3>2. i + k - 1 = n + k - 1
        BY <1>3, <1>5, <2>3, <3>1 DEF LearnInv, Numbered, Unique
      <3>. QED
        BY <3>1, <3>2
    <2>4. Given(msgs)' /\ Unique(msgs)'
      BY <1>1, <2>2, <2>3 DEF Given, Unique
    <2>5. \A w \in Writers : Given(copy[w].msgs)' /\ Unique(copy[w].msgs)'
      BY <1>1, <1>4 DEF LearnInv, Numbered, Given, Unique
    <2>6. \A m \in reviewed' : m # 0 /\ m <= used'["msg"]
      BY <1>1, <1>4 DEF LearnInv, Numbered
    <2>. QED
      BY <2>4, <2>5, <2>6 DEF Numbered
  <1>9. Covered'
    BY <1>0, <1>1 DEF Covered
  <1>10. Ahead'
    <2>. SUFFICES ASSUME ~slipped, ~outrun', ~lost, ~back PROVE Ahead'
      BY <1>4 DEF Ahead
    <2>1. ~outrun /\ ~(cursor > Len(msgs'))
      BY DEF Compact
    <2>2. Len(msgs') \in Nat /\ cursor <= Len(msgs')
      BY SMTT(60), <1>0, <1>3, <2>1, LenProperties
    <2>3. ASSUME NEW i \in 1..Len(msgs'), cursor < i, msgs'[i] \in reviewed
          PROVE  \E j \in Jobs : Owing(j) /\ i <= job[j].to
      <3>1. i # 1
        BY <1>3, <2>3 DEF LearnInv, Numbered
      <3>2. i \in 2..Len(msgs')
        BY <2>2, <3>1
      <3>3. i + k - 1 \in 1..Len(msgs) /\ msgs[i + k - 1] \in reviewed
        BY <1>3, <1>5, <2>3, <3>2
      <3>6. cursor < i + k - 1
        BY <1>0, <2>2, <2>3
      <3>4. PICK j \in Jobs : Owing(j) /\ i + k - 1 <= job[j].to
        BY <2>1, <3>3, <3>6 DEF LearnInv, Ahead
      <3>5. job[j].to \in Nat
        BY <1>0 DEF DataOK, JobRec
      <3>. QED
        BY <1>0, <3>2, <3>4, <3>5
    <2>. QED
      BY <1>4, <2>1, <2>2, <2>3 DEF LearnInv, Ahead, Owing
  <1>. QED
    BY <1>6, <1>7, <1>8, <1>9, <1>10 DEF Kept

\* A job is queued when none is active.
LEMMA TurnEndQueuesKeeps ==
  ASSUME LearnInv, NEW j \in Jobs, TurnEndQueues(j)
  PROVE  DataOK' /\ Kept'
  <1>0. DataOK
    BY DEF LearnInv
  <1>1. /\ job[j].pc = "none" /\ active = {} /\ active' = {j} /\ Goes(j, "load")
        /\ UNCHANGED <<msgs, cursor, copy, used, history>>
    BY DEF TurnEndQueues, Nudge, Goes
  <1>2. /\ job' \in [Jobs -> JobRec]
        /\ job'[j].pc = "load" /\ job'[j].result = job[j].result
        /\ job'[j].from = job[j].from /\ job'[j].to = job[j].to
        /\ \A k \in Jobs : k # j => job'[k] = job[k]
    BY <1>0, <1>1, GoesFacts
  <1>3. DataOK'
    BY <1>0, <1>1, <1>2 DEF DataOK, TurnEndQueues, history
  <1>4. OneJob'
    BY <1>1, <1>2 DEF LearnInv, OneJob
  <1>5. Results'
    BY <1>1, <1>2 DEF LearnInv, Results
  <1>6. ~Owing(j) /\ ~Owing(j)'
    BY <1>1, <1>2 DEF Owing
  <1>7. Kept'
    BY <1>1, <1>2, <1>4, <1>5, <1>6, JobMoves
  <1>. QED
    BY <1>3, <1>7

\* A running job reads its row, saves it, panics or leaves the active set.
LEMMA JobMovesKeeps ==
  ASSUME LearnInv, NEW j \in Jobs, JobLoad(j) \/ JobStart(j) \/ JobPanic(j) \/ JobFinish(j) \/ JobClear(j)
  PROVE  DataOK' /\ Kept'
  <1>0. DataOK
    BY DEF LearnInv
  <1>1. /\ UNCHANGED <<msgs, cursor, copy, exp, history>>
        /\ active' = active \/ (At(j, "clear") /\ active' = active \ {j})
        /\ \/ At(j, "load") /\ (Goes(j, "clear") \/ Goes(j, "capture"))
           \/ At(j, "start") /\ Goes(j, "review")
           \/ At(j, "review") /\ Goes(j, "clear")
           \/ At(j, "finish") /\ job[j].result = "reviewed" /\ Goes(j, "advance")
           \/ At(j, "finish") /\ job[j].result # "reviewed" /\ Goes(j, "clear")
           \/ At(j, "clear") /\ Goes(j, "ended") /\ active' = active \ {j}
    <2>1. CASE JobLoad(j)
      <3>1. CASE row[j] = "none"
        BY <2>1, <3>1 DEF JobLoad, roomVars, storeVars
      <3>2. CASE row[j] # "none"
        BY <2>1, <3>2 DEF JobLoad, roomVars, storeVars
      <3>. QED
        BY <3>1, <3>2
    <2>2. CASE JobStart(j)
      BY <2>2 DEF JobStart, roomVars
    <2>3. CASE JobPanic(j)
      BY <2>3 DEF JobPanic, roomVars, storeVars
    <2>4. CASE JobFinish(j)
      <3>1. CASE job[j].result = "reviewed"
        BY <2>4, <3>1 DEF JobFinish, roomVars
      <3>2. CASE job[j].result # "reviewed"
        BY <2>4, <3>2 DEF JobFinish, roomVars
      <3>. QED
        BY <3>1, <3>2
    <2>5. CASE JobClear(j)
      BY <2>5 DEF JobClear, roomVars, storeVars
    <2>. QED
      BY <2>1, <2>2, <2>3, <2>4, <2>5
  <1>2. /\ row' \in [Jobs -> {"none", "queued", "running", "done", "error"}]
        /\ used' \in [Harms \cup {"msg"} -> Nat]
        /\ used'["msg"] = used["msg"] /\ used'["compact"] = used["compact"]
    <2>1. CASE JobLoad(j) \/ JobClear(j)
      BY <1>0, <2>1 DEF JobLoad, JobClear, storeVars, DataOK
    <2>2. CASE JobPanic(j)
      BY <1>0, <2>2, HarmFacts, HarmKinds DEF JobPanic, storeVars, DataOK
    <2>3. CASE JobStart(j) \/ JobFinish(j)
      BY <1>0, <2>3, SavedFacts DEF JobStart, JobFinish
    <2>. QED
      BY <2>1, <2>2, <2>3
  <1>3. PICK pc \in {"capture", "review", "advance", "clear", "ended"} :
          /\ Goes(j, pc)
          /\ \/ job[j].pc = "load" /\ pc \in {"clear", "capture"}
             \/ job[j].pc = "start" /\ pc = "review"
             \/ job[j].pc = "review" /\ pc = "clear"
             \/ job[j].pc = "finish" /\ job[j].result = "reviewed" /\ pc = "advance"
             \/ job[j].pc = "finish" /\ job[j].result # "reviewed" /\ pc = "clear"
             \/ job[j].pc = "clear" /\ pc = "ended"
    BY <1>1 DEF At
  <1>4. /\ job' \in [Jobs -> JobRec]
        /\ job'[j].pc = pc /\ job'[j].result = job[j].result
        /\ job'[j].from = job[j].from /\ job'[j].to = job[j].to
        /\ \A k \in Jobs : k # j => job'[k] = job[k]
    BY <1>0, <1>3, GoesFacts
  <1>5. DataOK'
    BY <1>0, <1>1, <1>2, <1>4 DEF DataOK, history
  <1>6. OneJob'
    <2>1. active = {j} /\ \A k \in Jobs : k # j => job[k].pc \in {"none", "ended"}
      BY <1>3 DEF LearnInv, OneJob
    <2>2. pc # "ended" => active' = active
      BY <1>1, <1>3 DEF At
    <2>. QED
      BY <1>4, <2>1, <2>2 DEF OneJob
  <1>7. Results'
    BY <1>3, <1>4 DEF LearnInv, Results
  <1>8. Owing(j)' <=> Owing(j)
    BY <1>3, <1>4 DEF LearnInv, Results, Owing
  <1>9. Kept'
    BY <1>1, <1>2, <1>3, <1>4, <1>6, <1>7, <1>8, JobMoves
  <1>. QED
    BY <1>5, <1>9

LEMMA JobCaptureKeeps ==
  ASSUME LearnInv, NEW j \in Jobs, JobCapture(j)
  PROVE  DataOK' /\ Kept'
  <1>0. DataOK /\ job \in [Jobs -> JobRec] /\ msgs \in Seq(Nat) /\ Len(msgs) \in Nat /\ cursor \in Nat
    BY LenProperties DEF LearnInv, DataOK
  <1>. DEFINE x == [job[j] EXCEPT !.pc = "start", !.from = RangeStart, !.to = Len(msgs)]
  <1>1. /\ job[j].pc = "capture" /\ job' = [job EXCEPT ![j] = x]
        /\ UNCHANGED <<msgs, cursor, copy, row, exp, active, used, history>>
    BY DEF JobCapture, At, roomVars, storeVars
  <1>2. RangeStart \in Nat /\ (cursor <= Len(msgs) => RangeStart = cursor)
    BY <1>0 DEF RangeStart
  <1>3. /\ x \in JobRec /\ x.pc = "start" /\ x.result = job[j].result /\ x.from = RangeStart /\ x.to = Len(msgs)
    BY <1>0, <1>2 DEF JobRec
  <1>. HIDE DEF x
  <1>4. /\ job' \in [Jobs -> JobRec] /\ job'[j] = x
        /\ \A k \in Jobs : k # j => job'[k] = job[k]
    BY <1>0, <1>1, <1>3
  <1>5. DataOK'
    BY <1>0, <1>1, <1>4 DEF DataOK, history
  <1>6. OneJob' /\ Results' /\ Numbered'
    BY <1>1, <1>3, <1>4 DEF LearnInv, OneJob, Results, Numbered, Given, Unique, history
  <1>7. ~Owing(j) /\ ~Owing(j)' /\ \A k \in Jobs : k # j => (Owing(k)' <=> Owing(k))
    BY <1>1, <1>3, <1>4 DEF Owing
  <1>8. Covered'
    <2>. SUFFICES ASSUME used["compact"] = 0, ~lost PROVE Covered'
      BY <1>1 DEF Covered, history
    <2>1. Seen(msgs, cursor) /\ RangeStart = cursor
      BY <1>2 DEF LearnInv, Covered, Seen
    <2>2. \A q, n : Seen(q, n) <=> Seen(q, n)'
      BY <1>1 DEF Seen, history
    <2>. QED
      BY <1>0, <1>1, <1>3, <1>4, <1>7, <2>1, <2>2 DEF LearnInv, Covered, history
  <1>9. Ahead'
    BY <1>0, <1>1, <1>2, <1>3, <1>4, <1>7 DEF LearnInv, Ahead, history
  <1>. QED
    BY <1>5, <1>6, <1>8, <1>9 DEF Kept

\* What a review is given: the messages of its range.
LEMMA BetweenFacts ==
  ASSUME DataOK, Len(msgs) \in Nat, NEW f \in Nat, NEW t \in Nat
  PROVE  \A m : m \in Between(f, t) <=>
                 m # 0 /\ \E i \in 1..Len(msgs) : f < i /\ i <= t /\ msgs[i] = m
  <1>. TAKE m
  <1>1. ASSUME NEW i
        PROVE  (i \in f + 1..t /\ i <= Len(msgs)) <=> (i \in 1..Len(msgs) /\ f < i /\ i <= t)
    OBVIOUS
  <1>. QED
    BY <1>1 DEF Between

\* A successful review reads what is before the cursor, and nothing that was reviewed.
LEMMA JobReviewKeeps ==
  ASSUME LearnInv, NEW j \in Jobs, JobReview(j)
  PROVE  DataOK' /\ Kept'
  <1>0. /\ DataOK /\ job \in [Jobs -> JobRec] /\ msgs \in Seq(Nat) /\ Len(msgs) \in Nat /\ cursor \in Nat
        /\ \A i \in 1..Len(msgs) : msgs[i] \in Nat
        /\ \A k \in Jobs : job[k].from \in Nat /\ job[k].to \in Nat
    BY LenProperties, ElementOfSeq DEF LearnInv, DataOK, JobRec
  <1>. DEFINE read == Between(job[j].from, job[j].to)
  <1>1. PICK result \in {"failed", "fallback", "reviewed"} :
          /\ job' = [job EXCEPT ![j] = [job[j] EXCEPT !.pc = "finish", !.result = result]]
          /\ IF result = "reviewed"
               THEN reviewed' = reviewed \cup read /\ again' = (again \/ read \cap reviewed # {})
               ELSE UNCHANGED <<reviewed, again>>
    BY DEF JobReview
  <1>2. job[j].pc = "review" /\ UNCHANGED <<msgs, cursor, copy, row, exp, active, used, slipped, outrun, lost, back>>
    BY DEF JobReview, At, roomVars, storeVars
  <1>. DEFINE x == [job[j] EXCEPT !.pc = "finish", !.result = result]
  <1>3. x \in JobRec /\ x.pc = "finish" /\ x.result = result /\ x.from = job[j].from /\ x.to = job[j].to
    BY <1>0 DEF JobRec
  <1>. HIDE DEF x
  <1>4. /\ job' \in [Jobs -> JobRec] /\ job'[j] = x
        /\ \A k \in Jobs : k # j => job'[k] = job[k]
    BY <1>0, <1>1, <1>3 DEF x
  <1>5. \A m : m \in read <=> /\ m # 0
                              /\ \E i \in 1..Len(msgs) : job[j].from < i /\ i <= job[j].to /\ msgs[i] = m
    <2>1. DataOK /\ Len(msgs) \in Nat /\ job[j].from \in Nat /\ job[j].to \in Nat
      BY <1>0
    <2>. QED
      BY <2>1, BetweenFacts
  <1>. HIDE DEF read
  <1>6. \A k \in Jobs : k # j => job[k].pc \in {"none", "ended"}
    BY <1>2 DEF LearnInv, OneJob
  <1>7. \A k \in Jobs : ~Owing(k)
    BY <1>2, <1>6 DEF Owing
  <1>8. \A k \in Jobs : Owing(k)' <=> k = j /\ result = "reviewed"
    BY <1>3, <1>4, <1>6 DEF Owing
  <1>9. DataOK'
    <2>1. read \subseteq Nat
      BY <1>0, <1>5
    <2>. QED
      BY <1>0, <1>1, <1>2, <1>4, <2>1 DEF DataOK
  <1>10. OneJob' /\ Results'
    BY <1>2, <1>3, <1>4 DEF LearnInv, OneJob, Results
  <1>11. Numbered'
    BY <1>1, <1>2, <1>5 DEF LearnInv, Numbered, Given, Unique
  <1>12. Covered'
    <2>. SUFFICES ASSUME used["compact"] = 0, ~lost PROVE Covered'
      BY <1>2 DEF Covered
    <2>1. reviewed \subseteq reviewed'
      BY <1>1
    <2>2. \A q, n : Seen(q, n) => Seen(q, n)'
      BY <2>1 DEF Seen
    <2>3. Seen(msgs, cursor) /\ \A w \in Writers : copy[w].pc = "held" => Seen(copy[w].msgs, copy[w].cursor)
      BY DEF LearnInv, Covered
    <2>5. \A k \in Jobs : job'[k].pc \in {"start", "review", "finish", "advance"} =>
              Seen(msgs, job'[k].from) /\ job'[k].to <= Len(msgs)
      BY <1>2, <1>3, <1>4 DEF LearnInv, Covered
    <2>4. ASSUME NEW i \in 1..Len(msgs), job[j].from < i, i <= job[j].to, result = "reviewed"
          PROVE  msgs[i] \in reviewed' \cup {0}
      BY <1>1, <1>5, <2>4
    <2>. QED
      BY <1>2, <1>3, <1>4, <1>8, <2>2, <2>3, <2>4, <2>5 DEF Covered
  <1>13. Ahead'
    <2>. SUFFICES ASSUME ~slipped, ~outrun, ~lost, ~back PROVE Ahead'
      BY <1>2 DEF Ahead
    <2>1. /\ ~again /\ cursor <= Len(msgs) /\ job[j].from = cursor
          /\ \A i \in 1..Len(msgs) : cursor < i => msgs[i] \notin reviewed
      BY <1>2, <1>7 DEF LearnInv, Ahead
    <2>2. read \cap reviewed = {}
      BY <1>5, <2>1
    <2>3. ~again'
      BY <1>1, <2>1, <2>2
    <2>4. ASSUME NEW i \in 1..Len(msgs), cursor < i, msgs[i] \in reviewed'
          PROVE  result = "reviewed" /\ i <= job[j].to
      <3>1. result = "reviewed" /\ msgs[i] \in read
        BY <1>1, <2>1, <2>4
      <3>2. PICK n \in 1..Len(msgs) : n <= job[j].to /\ msgs[n] = msgs[i] /\ msgs[i] # 0
        BY <1>5, <3>1
      <3>3. n = i
        BY <3>2 DEF LearnInv, Numbered, Unique
      <3>. QED
        BY <3>1, <3>2, <3>3
    <2>5. \A k \in Jobs : job'[k].pc \notin {"start", "review"}
      BY <1>3, <1>4, <1>6
    <2>. QED
      BY <1>2, <1>3, <1>4, <1>8, <2>1, <2>3, <2>4, <2>5 DEF Ahead
  <1>. QED
    BY <1>9, <1>10, <1>11, <1>12, <1>13 DEF Kept

\* The cursor moves to the end of what was reviewed, or not at all.
LEMMA JobAdvanceKeeps ==
  ASSUME LearnInv, NEW j \in Jobs, JobAdvance(j)
  PROVE  DataOK' /\ Kept'
  <1>0. /\ DataOK /\ job \in [Jobs -> JobRec] /\ msgs \in Seq(Nat) /\ Len(msgs) \in Nat /\ cursor \in Nat
        /\ \A k \in Jobs : job[k].from \in Nat /\ job[k].to \in Nat
    BY LenProperties DEF LearnInv, DataOK, JobRec
  <1>1. /\ job[j].pc = "advance" /\ Goes(j, "clear")
        /\ UNCHANGED <<msgs, copy, row, exp, active, reviewed, again, outrun, lost, back>>
    BY DEF JobAdvance, At, storeVars
  <1>2. /\ job' \in [Jobs -> JobRec] /\ job'[j].pc = "clear" /\ job'[j].result = job[j].result
        /\ \A k \in Jobs : k # j => job'[k] = job[k]
    BY <1>0, <1>1, GoesFacts
  <1>3. \A k \in Jobs : k # j => job[k].pc \in {"none", "ended"}
    BY <1>1 DEF LearnInv, OneJob
  <1>4. \A k \in Jobs : job'[k].pc \in {"none", "ended", "clear"} /\ ~Owing(k)'
    BY <1>2, <1>3 DEF Owing
  <1>5. /\ used' \in [Harms \cup {"msg"} -> Nat]
        /\ used'["msg"] = used["msg"] /\ used'["compact"] = used["compact"]
    BY <1>0, HarmFacts, HarmKinds DEF JobAdvance, DataOK
  <1>6. cursor' \in {cursor, Target(job[j].to)} /\ (~slipped' => ~slipped /\ cursor' = Target(job[j].to))
    BY DEF JobAdvance
  <1>7. /\ Target(job[j].to) \in Nat
        /\ cursor <= Len(msgs) => /\ cursor <= Target(job[j].to) /\ Target(job[j].to) <= Len(msgs)
                                  /\ \A i \in 1..Len(msgs) : i <= job[j].to => i <= Target(job[j].to)
                                  /\ \A i \in Nat : i <= Target(job[j].to) => i <= cursor \/ i <= job[j].to
    BY <1>0 DEF Target, RangeStart
  <1>8. DataOK'
    BY <1>0, <1>1, <1>2, <1>5, <1>6, <1>7 DEF DataOK
  <1>9. OneJob' /\ Results' /\ Numbered'
    BY <1>1, <1>2, <1>5 DEF LearnInv, OneJob, Results, Numbered, Given, Unique
  <1>10. Owing(j)
    BY <1>1 DEF LearnInv, Results, Owing
  <1>11. Covered'
    <2>. SUFFICES ASSUME used["compact"] = 0, ~lost PROVE Covered'
      BY <1>1, <1>5 DEF Covered
    <2>1. /\ Seen(msgs, cursor) /\ Seen(msgs, job[j].from)
          /\ \A i \in 1..Len(msgs) : job[j].from < i /\ i <= job[j].to => msgs[i] \in reviewed \cup {0}
      BY <1>1, <1>10 DEF LearnInv, Covered
    <2>2. cursor <= Len(msgs) /\ cursor' <= Len(msgs)
      BY <1>6, <1>7, <2>1 DEF Seen
    <2>3. ASSUME NEW i \in 1..Len(msgs), i <= cursor' PROVE msgs[i] \in reviewed \cup {0}
      <3>1. i <= cursor \/ i <= job[j].from \/ (job[j].from < i /\ i <= job[j].to)
        BY <1>0, <1>6, <1>7, <2>2, <2>3
      <3>. QED
        BY <2>1, <3>1 DEF Seen
    <2>4. Seen(msgs, cursor)'
      BY <1>1, <2>2, <2>3 DEF Seen
    <2>5. \A w \in Writers : copy'[w].pc = "held" => Seen(copy[w].msgs, copy[w].cursor)'
      BY <1>1 DEF LearnInv, Covered, Seen
    <2>. QED
      BY <1>4, <2>4, <2>5 DEF Covered
  <1>12. Ahead'
    <2>. SUFFICES ASSUME ~slipped', ~outrun, ~lost, ~back PROVE Ahead'
      BY <1>1 DEF Ahead
    <2>1. /\ ~again /\ cursor <= Len(msgs) /\ cursor' = Target(job[j].to)
          /\ \A i \in 1..Len(msgs) : cursor < i /\ msgs[i] \in reviewed => \E k \in Jobs : Owing(k) /\ i <= job[k].to
      BY <1>6 DEF LearnInv, Ahead
    <2>2. \A k \in Jobs : Owing(k) => k = j
      BY <1>3 DEF Owing
    <2>3. ASSUME NEW i \in 1..Len(msgs), cursor' < i PROVE msgs[i] \notin reviewed
      <3>1. cursor < i /\ ~(i <= job[j].to)
        BY <1>0, <1>7, <2>1, <2>3
      <3>. QED
        BY <2>1, <2>2, <3>1
    <2>4. cursor' <= Len(msgs)
      BY <1>7, <2>1
    <2>. QED
      BY <1>1, <1>4, <2>1, <2>3, <2>4 DEF Ahead
  <1>. QED
    BY <1>8, <1>9, <1>11, <1>12 DEF Kept

\* A restart ends the jobs; a review whose cursor was still to come has slipped.
LEMMA RestartKeeps ==
  ASSUME LearnInv, Restart
  PROVE  DataOK' /\ Kept'
  <1>0. DataOK /\ job \in [Jobs -> JobRec]
    BY DEF LearnInv, DataOK
  <1>1. /\ UNCHANGED <<msgs, cursor, exp, reviewed, again, outrun, lost, back>> /\ active' = {}
        /\ ~slipped' => ~slipped /\ \A k \in Jobs : ~Owing(k)
    BY DEF Restart, Owing
  <1>2. /\ used' \in [Harms \cup {"msg"} -> Nat]
        /\ used'["msg"] = used["msg"] /\ used'["compact"] = used["compact"]
    BY <1>0, HarmFacts, HarmKinds DEF Restart
  <1>3. row' \in [Jobs -> {"none", "queued", "running", "done", "error"}]
    BY <1>0 DEF Restart, Recovered, DataOK
  <1>4. /\ job' \in [Jobs -> JobRec]
        /\ \A k \in Jobs : job'[k].pc \in {"none", "ended"} /\ (job'[k].pc = "none" => job'[k] = job[k])
    <2>1. \A k \in Jobs : /\ [job[k] EXCEPT !.pc = "ended"] \in JobRec
                          /\ [job[k] EXCEPT !.pc = "ended"].pc = "ended"
      BY <1>0 DEF JobRec
    <2>. QED
      BY <1>0, <2>1 DEF Restart
  <1>5. \A k \in Jobs : ~Owing(k)'
    BY <1>4 DEF Owing
  <1>6. /\ copy' \in [Writers -> CopyRec]
        /\ \A w \in Writers : copy'[w].pc # "held" /\ (copy'[w] = copy[w] \/ copy'[w].msgs = <<>>)
    <2>1. [NoCopy EXCEPT !.pc = "ended"] = [pc |-> "ended", msgs |-> <<>>, cursor |-> 0]
      BY DEF NoCopy
    <2>2. copy' = [w \in Writers |-> IF copy[w].pc = "held" THEN [pc |-> "ended", msgs |-> <<>>, cursor |-> 0]
                                    ELSE copy[w]]
      BY <2>1 DEF Restart
    <2>3. [pc |-> "ended", msgs |-> <<>>, cursor |-> 0] \in CopyRec
      BY EmptySeq DEF CopyRec
    <2>4. copy \in [Writers -> CopyRec]
      BY <1>0 DEF DataOK
    <2>. HIDE DEF CopyRec
    <2>. QED
      BY <2>2, <2>3, <2>4
  <1>7. DataOK'
    BY <1>0, <1>1, <1>2, <1>3, <1>4, <1>6 DEF DataOK
  <1>8. OneJob' /\ Results'
    BY <1>1, <1>2, <1>4 DEF LearnInv, OneJob, Results
  <1>9. Numbered'
    <2>1. Given(msgs)' /\ Unique(msgs)' /\ \A m \in reviewed' : m # 0 /\ m <= used'["msg"]
      BY <1>1, <1>2 DEF LearnInv, Numbered, Given, Unique
    <2>2. ASSUME NEW w \in Writers PROVE Given(copy[w].msgs)' /\ Unique(copy[w].msgs)'
      <3>1. CASE copy'[w] = copy[w]
        BY <1>2, <3>1 DEF LearnInv, Numbered, Given, Unique
      <3>2. CASE copy'[w].msgs = <<>>
        BY <3>2, EmptySeq DEF Given, Unique
      <3>. QED
        BY <1>6, <3>1, <3>2
    <2>. QED
      BY <2>1, <2>2 DEF Numbered
  <1>10. Covered'
    BY <1>1, <1>2, <1>4, <1>5, <1>6 DEF LearnInv, Covered, Seen
  <1>11. Ahead'
    BY <1>1, <1>4, <1>5 DEF LearnInv, Ahead
  <1>. QED
    BY <1>7, <1>8, <1>9, <1>10, <1>11 DEF Kept

\* A notice or a rename loads the conversation, or gives up.
LEMMA CopyKeeps ==
  ASSUME LearnInv, NEW w \in Writers, CopyLoad(w) \/ CopyDrop(w)
  PROVE  DataOK' /\ Kept'
  <1>0. DataOK /\ copy \in [Writers -> CopyRec] /\ msgs \in Seq(Nat) /\ cursor \in Nat
    BY DEF LearnInv, DataOK
  <1>1. UNCHANGED <<msgs, cursor, row, exp, active, job, used, history>>
    BY DEF CopyLoad, CopyDrop, storeVars
  <1>2. PICK x \in CopyRec :
          /\ copy' = [copy EXCEPT ![w] = x]
          /\ \/ x.pc = "held" /\ x.msgs = msgs /\ x.cursor = cursor
             \/ x.pc = "ended" /\ x.msgs = <<>>
    <2>1. CASE CopyLoad(w)
      <3>1. [pc |-> "held", msgs |-> msgs, cursor |-> cursor] \in CopyRec
        BY <1>0 DEF CopyRec
      <3>. QED
        BY <2>1, <3>1 DEF CopyLoad
    <2>2. CASE CopyDrop(w)
      <3>1. [NoCopy EXCEPT !.pc = "ended"] = [pc |-> "ended", msgs |-> <<>>, cursor |-> 0]
        BY DEF NoCopy
      <3>2. [pc |-> "ended", msgs |-> <<>>, cursor |-> 0] \in CopyRec
        BY EmptySeq DEF CopyRec
      <3>. QED
        BY <2>2, <3>1, <3>2 DEF CopyDrop, CopyGone
    <2>. QED
      BY <2>1, <2>2
  <1>3. /\ copy' \in [Writers -> CopyRec] /\ copy'[w] = x
        /\ \A v \in Writers : v # w => copy'[v] = copy[v]
    BY <1>0, <1>2
  <1>4. DataOK'
    BY <1>0, <1>1, <1>3 DEF DataOK, history
  <1>5. OneJob' /\ Results' /\ Ahead'
    BY <1>1 DEF LearnInv, OneJob, Results, Ahead, Owing, history
  <1>6. Numbered'
    <2>1. \A q : (Given(q)' <=> Given(q)) /\ (Unique(q)' <=> Unique(q))
      BY <1>1 DEF Given, Unique
    <2>2. Given(<<>>) /\ Unique(<<>>)
      BY EmptySeq DEF Given, Unique
    <2>3. Given(x.msgs) /\ Unique(x.msgs)
      BY <1>2, <2>2 DEF LearnInv, Numbered
    <2>4. \A v \in Writers : Given(copy'[v].msgs) /\ Unique(copy'[v].msgs)
      BY <1>3, <2>3 DEF LearnInv, Numbered
    <2>. QED
      BY <1>1, <2>1, <2>4 DEF LearnInv, Numbered, history
  <1>7. Covered'
    <2>. SUFFICES ASSUME used["compact"] = 0, ~lost PROVE Covered'
      BY <1>1 DEF Covered, history
    <2>1. \A q, n : Seen(q, n)' <=> Seen(q, n)
      BY <1>1 DEF Seen, history
    <2>2. \A v \in Writers : copy'[v].pc = "held" => Seen(copy'[v].msgs, copy'[v].cursor)
      BY <1>2, <1>3 DEF LearnInv, Covered
    <2>. QED
      BY <1>1, <2>1, <2>2 DEF LearnInv, Covered, Owing, history
  <1>. QED
    BY <1>4, <1>5, <1>6, <1>7 DEF Kept

\* A copy is saved over the conversation: what it takes back was reviewed, and stays so.
LEMMA CopySaveKeeps ==
  ASSUME LearnInv, NEW w \in Writers, CopySave(w)
  PROVE  DataOK' /\ Kept'
  <1>0. /\ DataOK /\ copy \in [Writers -> CopyRec]
        /\ copy[w].msgs \in Seq(Nat) /\ copy[w].cursor \in Nat
    BY DEF LearnInv, DataOK, CopyRec
  <1>1. /\ UNCHANGED <<row, exp, active, job, used, reviewed, again, slipped, outrun>>
        /\ copy[w].pc = "held" /\ msgs' = copy[w].msgs /\ cursor' = copy[w].cursor
        /\ ~lost' => ~lost /\ msgs' = msgs
        /\ ~back' => ~back /\ cursor' = cursor
    BY DEF CopySave, storeVars
  <1>. DEFINE x == [pc |-> "ended", msgs |-> <<>>, cursor |-> 0]
  <1>2. x \in CopyRec /\ x.pc = "ended" /\ x.msgs = <<>>
    BY EmptySeq DEF CopyRec
  <1>3. copy' = [copy EXCEPT ![w] = x]
    <2>1. [NoCopy EXCEPT !.pc = "ended"] = x
      BY DEF NoCopy
    <2>. QED
      BY <2>1 DEF CopySave, CopyGone
  <1>. HIDE DEF x
  <1>4. /\ copy' \in [Writers -> CopyRec] /\ copy'[w] = x
        /\ \A v \in Writers : v # w => copy'[v] = copy[v]
    BY <1>0, <1>2, <1>3
  <1>5. DataOK'
    BY <1>0, <1>1, <1>4 DEF DataOK
  <1>6. OneJob' /\ Results'
    BY <1>1 DEF LearnInv, OneJob, Results
  <1>7. Numbered'
    <2>1. \A q : (Given(q)' <=> Given(q)) /\ (Unique(q)' <=> Unique(q))
      BY <1>1 DEF Given, Unique
    <2>2. Given(<<>>) /\ Unique(<<>>)
      BY EmptySeq DEF Given, Unique
    <2>3. \A v \in Writers : Given(copy'[v].msgs) /\ Unique(copy'[v].msgs)
      BY <1>2, <1>4, <2>2 DEF LearnInv, Numbered
    <2>4. Given(msgs') /\ Unique(msgs')
      BY <1>1 DEF LearnInv, Numbered
    <2>. QED
      BY <1>1, <2>1, <2>3, <2>4 DEF LearnInv, Numbered
  <1>8. Covered'
    <2>. SUFFICES ASSUME used["compact"] = 0, ~lost' PROVE Covered'
      BY <1>1 DEF Covered
    <2>1. ~lost /\ msgs' = msgs
      BY <1>1
    <2>2. \A q, n : Seen(q, n)' <=> Seen(q, n)
      BY <1>1 DEF Seen
    <2>3. Seen(msgs', cursor')
      BY <1>1, <2>1 DEF LearnInv, Covered
    <2>4. \A v \in Writers : copy'[v].pc = "held" => Seen(copy'[v].msgs, copy'[v].cursor)
      BY <1>2, <1>4, <2>1 DEF LearnInv, Covered
    <2>. QED
      BY <1>1, <2>1, <2>2, <2>3, <2>4 DEF LearnInv, Covered, Owing
  <1>9. Ahead'
    BY <1>1 DEF LearnInv, Ahead, Owing
  <1>. QED
    BY <1>5, <1>6, <1>7, <1>8, <1>9 DEF Kept

-----------------------------------------------------------------------------
(* The theorems.                                                           *)

LEMMA LearnInvInit == Init => LearnInv
  <1>. SUFFICES ASSUME Init PROVE LearnInv
    OBVIOUS
  <1>1. Flags
    BY Zenon DEF Init, Flags
  <1>2. msgs = <<>> /\ msgs \in Seq(Nat) /\ Len(msgs) = 0 /\ cursor = 0 /\ reviewed = {}
    BY EmptySeq DEF Init
  <1>3. Idle \in JobRec /\ Idle.pc = "none" /\ Idle.result = "none"
    BY DEF Idle, JobRec
  <1>4. job \in [Jobs -> JobRec] /\ \A j \in Jobs : job[j].pc = "none" /\ job[j].result = "none"
    BY <1>3 DEF Init
  <1>9. copy \in [Writers -> CopyRec] /\ \A w \in Writers : copy[w].pc = "none" /\ copy[w].msgs = <<>>
    BY EmptySeq DEF Init, NoCopy, CopyRec
  <1>5. DataOK
    BY <1>2, <1>4, <1>9 DEF Init, DataOK
  <1>6. OneJob /\ Results /\ Numbered
    BY <1>2, <1>4, <1>9 DEF OneJob, Results, Numbered, Given, Unique
  <1>7. Covered
    BY <1>2, <1>4, <1>9 DEF Covered, Seen, Owing
  <1>8. Ahead
    BY <1>2, <1>4 DEF Init, Ahead
  <1>. QED
    BY <1>1, <1>5, <1>6, <1>7, <1>8 DEF LearnInv

LEMMA LearnInvStep == LearnInv /\ [Next]_vars => LearnInv'
  <1>. SUFFICES ASSUME LearnInv, [Next]_vars PROVE LearnInv'
    OBVIOUS
  <1>1. CASE UNCHANGED vars
    BY <1>1 DEF vars, LearnInv, Flags, DataOK, OneJob, Numbered, Given, Unique, Results, Covered,
               Seen, Ahead, Owing
  <1>2. CASE Next
    <2>1. Flags'
      BY <1>2, FlagsKept DEF LearnInv
    <2>2. DataOK' /\ Kept'
      BY <1>2, QuietKeeps, DeleteKeeps, TurnMessageKeeps, CompactKeeps, TurnEndQueuesKeeps, JobMovesKeeps,
         JobCaptureKeeps, JobReviewKeeps, JobAdvanceKeeps, RestartKeeps, CopyKeeps, CopySaveKeeps DEF Next, TurnEnd, Running
    <2>. QED
      BY <2>1, <2>2 DEF LearnInv, Kept
  <1>. QED
    BY <1>1, <1>2

LEMMA LearnInvariance == Spec => []LearnInv
  BY LearnInvInit, LearnInvStep, PTL DEF Spec

\* The transcript, the cursor, the job rows and the active set stay well formed,
\* whatever turns, jobs, compactions and restarts do to them (RunLearningJob,
\* RecordExperience).
THEOREM LearnTypeCorrect == Spec => []TypeOK
  <1>1. LearnInv => TypeOK
    BY DEF LearnInv, Flags, DataOK, TypeOK
  <1>. QED
    BY <1>1, LearnInvariance, PTL

\* What the cursor leaves behind was reviewed, also after a notice or rename took the cursor
\* back, until a compaction or the save of an old transcript takes messages away
\* (AdvanceLearningCursor, LearningMessageRangeForConversation, queueAnnouncement).
THEOREM CursorHonest == Spec => []NothingSkipped
  <1>1. LearnInv => NothingSkipped
    <2>. SUFFICES ASSUME LearnInv PROVE NothingSkipped
      OBVIOUS
    <2>1. DOMAIN msgs = 1..Len(msgs)
      BY LenProperties DEF LearnInv, DataOK
    <2>. QED
      BY <2>1 DEF LearnInv, Covered, Seen, NothingSkipped
  <1>. QED
    BY <1>1, LearnInvariance, PTL

\* No message is reviewed twice, but after a review whose cursor was lost, a compaction that
\* outran the cursor, or the save of an old conversation (RunLearningJob, RecordExperience,
\* queueAnnouncement, HandleRename).
THEOREM ReviewedOnce == Spec => []NotReviewedTwice
  <1>1. LearnInv => NotReviewedTwice
    BY DEF LearnInv, Ahead, NotReviewedTwice
  <1>. QED
    BY <1>1, LearnInvariance, PTL

=============================================================================

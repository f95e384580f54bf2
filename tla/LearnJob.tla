-------------------------------- MODULE LearnJob --------------------------------
(***************************************************************************)
(* Background learning on one conversation (application/learn): a finished *)
(* turn with enough unreviewed work queues a learner job, unless one is    *)
(* active; the job notes the unreviewed range of the transcript, has a     *)
(* model review it, and moves the conversation's cursor behind it.  Turns  *)
(* go on meanwhile, a compaction may replace the transcript, and a notice  *)
(* or a rename saves the whole conversation as it was when it was loaded.  *)
(*                                                                         *)
(* A message is a number; a compaction summary is 0.  The turn lock of the *)
(* conversation is held while a turn runs and while a job moves the        *)
(* cursor; notices and renames do without it.                              *)
(***************************************************************************)
EXTENDS Naturals, Sequences, FiniteSets

CONSTANTS
    Jobs,
    Interval,        \* learner_nudge_interval
    MaxMessages,     \* bound: messages ever written
    Writers,         \* notices and renames
    MaxHarms         \* bound: compactions, failing saves, panics, restarts and deletions together

ASSUME LearnAssumption ==
    /\ IsFiniteSet(Jobs) /\ Interval \in Nat \ {0}
    /\ MaxMessages \in Nat /\ MaxHarms \in Nat

VARIABLES
    msgs,       \* Conversation.Messages
    cursor,     \* Conversation.LastReviewedMsgCount
    turn,       \* whether a turn runs, and has the turn lock
    copy,       \* what each notice and rename has loaded and not saved yet
    row,        \* the job store
    exp,        \* the jobs whose experience is in the store
    active,     \* Service.activeJobs
    job,        \* RunLearningJob: where it is, its range, what the review came to
    used,       \* how many messages and harms there were
    reviewed,   \* history: the messages of successful reviews
    again,      \* history: a review was given messages that had been reviewed before
    slipped,    \* history: a review was not followed by its cursor
    outrun,     \* history: a compaction left the transcript shorter than the cursor
    lost,       \* history: a save without the turn lock overwrote a newer transcript
    back        \* history: a save without the turn lock overwrote a newer cursor

roomVars == <<msgs, cursor, turn, copy>>
storeVars == <<row, exp>>
history == <<reviewed, again, slipped, outrun, lost, back>>
vars == <<msgs, cursor, turn, copy, row, exp, active, job, used,
          reviewed, again, slipped, outrun, lost, back>>

\* What comes from outside, each of a kind.
Harms == {"compact", "fault", "crash", "del"}

NoCopy == [pc |-> "none", msgs |-> <<>>, cursor |-> 0]

Idle == [pc |-> "none", from |-> 0, to |-> 0, result |-> "none"]

Init ==
    /\ msgs = <<>> /\ cursor = 0 /\ turn = FALSE /\ copy = [w \in Writers |-> NoCopy]
    /\ row = [j \in Jobs |-> "none"] /\ exp = {} /\ active = {}
    /\ job = [j \in Jobs |-> Idle]
    /\ used = [b \in Harms \cup {"msg"} |-> 0]
    /\ reviewed = {} /\ again = FALSE /\ slipped = FALSE /\ outrun = FALSE
    /\ lost = FALSE /\ back = FALSE

Counts(b) == used' = [used EXCEPT ![b] = @ + 1]
Harmed == used["compact"] + used["fault"] + used["crash"] + used["del"]
Spends(b) == Harmed < MaxHarms /\ Counts(b)

-----------------------------------------------------------------------------
(* Turns and compaction.                                                   *)

TurnBegin ==
    /\ ~turn /\ turn' = TRUE
    /\ UNCHANGED <<msgs, cursor, copy, storeVars, active, job, used, history>>

TurnMessage ==
    /\ turn /\ used["msg"] < MaxMessages /\ Counts("msg")
    /\ msgs' = Append(msgs, used'["msg"])
    /\ UNCHANGED <<cursor, turn, copy, storeVars, active, job, history>>

\* A summary and a suffix of the transcript are what is left; the cursor stays.
Compact ==
    /\ msgs # <<>> /\ Spends("compact")
    /\ \E k \in 1..Len(msgs) : msgs' = <<0>> \o SubSeq(msgs, k + 1, Len(msgs))
    /\ outrun' = (outrun \/ cursor > Len(msgs'))
    /\ UNCHANGED <<cursor, turn, copy, storeVars, active, job, reviewed, again, slipped, lost, back>>

\* CountUnreviewedLearningProgress: no work where the cursor is behind the end.
Unreviewed == IF cursor > Len(msgs) THEN 0
              ELSE Cardinality({i \in cursor + 1..Len(msgs) : msgs[i] # 0})

\* Enough work, and no job active: RecordExperience queues one.
Nudge == Unreviewed >= Interval /\ active = {}

TurnEndQuiet ==
    /\ turn /\ ~Nudge /\ turn' = FALSE
    /\ UNCHANGED <<msgs, cursor, copy, storeVars, active, job, used, history>>

\* The experience or the job cannot be saved.
TurnEndFails ==
    /\ turn /\ Nudge /\ Spends("fault") /\ turn' = FALSE
    /\ UNCHANGED <<msgs, cursor, copy, storeVars, active, job, history>>

TurnEndQueues(j) ==
    /\ turn /\ Nudge /\ job[j].pc = "none" /\ turn' = FALSE
    /\ row' = [row EXCEPT ![j] = "queued"] /\ exp' = exp \cup {j}
    /\ active' = active \cup {j}
    /\ job' = [job EXCEPT ![j].pc = "load"]
    /\ UNCHANGED <<msgs, cursor, copy, used, history>>

-----------------------------------------------------------------------------
(* Writers without the turn lock: queueAnnouncement,                       *)
(* PublishTaskMemoryAnnouncement, HandleRename.                            *)

CopyLoad(w) ==
    /\ copy[w].pc = "none"
    /\ copy' = [copy EXCEPT ![w] = [pc |-> "held", msgs |-> msgs, cursor |-> cursor]]
    /\ UNCHANGED <<msgs, cursor, turn, storeVars, active, job, used, history>>

CopyGone(w) == copy' = [copy EXCEPT ![w] = [NoCopy EXCEPT !.pc = "ended"]]

\* The whole conversation is written as the copy has it; one without a message has no
\* durable anchor.
CopySave(w) ==
    /\ copy[w].pc = "held" /\ copy[w].msgs # <<>> /\ CopyGone(w)
    /\ msgs' = copy[w].msgs /\ cursor' = copy[w].cursor
    /\ lost' = (lost \/ msgs' # msgs) /\ back' = (back \/ cursor' # cursor)
    /\ UNCHANGED <<turn, storeVars, active, job, used, reviewed, again, slipped, outrun>>

\* No durable anchor, an empty title, nothing new to say, or a failing save.
CopyDrop(w) ==
    /\ copy[w].pc = "held" /\ CopyGone(w)
    /\ UNCHANGED <<msgs, cursor, turn, storeVars, active, job, used, history>>

-----------------------------------------------------------------------------
(* RunLearningJob.                                                         *)

At(j, pc) == job[j].pc = pc
Goes(j, pc) == job' = [job EXCEPT ![j].pc = pc]

\* Mutant of JobLoad: a job that is gone returns without leaving the active set.
JobLoadGone(j) ==
    /\ At(j, "load")
    /\ Goes(j, IF row[j] = "none" THEN "ended" ELSE "capture")
    /\ UNCHANGED <<roomVars, storeVars, active, used, history>>

JobLoad(j) ==
    /\ At(j, "load")
    /\ Goes(j, IF row[j] = "none" THEN "clear" ELSE "capture")
    /\ UNCHANGED <<roomVars, storeVars, active, used, history>>

\* Mutant of RangeStart: the whole transcript.
RangeStartZero == 0

\* LearningMessageRangeForConversation
RangeStart == IF cursor > Len(msgs) THEN 0 ELSE cursor

\* The messages from f, exclusive, to t.
Between(f, t) == {msgs[i] : i \in {n \in f + 1..t : n <= Len(msgs)}} \ {0}

JobCapture(j) ==
    /\ At(j, "capture")
    /\ job' = [job EXCEPT ![j] = [@ EXCEPT !.pc = "start", !.from = RangeStart, !.to = Len(msgs)]]
    /\ UNCHANGED <<roomVars, storeVars, active, used, history>>

\* The row is written, whether or not it is still there, or the save fails.
Saved(j, status) ==
    \/ row' = [row EXCEPT ![j] = status] /\ used' = used
    \/ row' = row /\ Spends("fault")

JobStart(j) ==
    /\ At(j, "start")
    /\ Goes(j, "review")
    /\ Saved(j, "running")
    /\ UNCHANGED <<roomVars, exp, active, history>>

\* The model reads the range in the stored transcript; an answer nobody can parse leaves
\* it unreviewed, an error fails the job.
JobReview(j) ==
    /\ At(j, "review")
    /\ \E result \in {"failed", "fallback", "reviewed"} :
          /\ result # "failed" => j \in exp
          /\ job' = [job EXCEPT ![j] = [@ EXCEPT !.pc = "finish", !.result = result]]
          /\ LET read == Between(job[j].from, job[j].to) IN
             IF result = "reviewed"
               THEN reviewed' = reviewed \cup read /\ again' = (again \/ read \cap reviewed # {})
               ELSE UNCHANGED <<reviewed, again>>
    /\ UNCHANGED <<roomVars, storeVars, active, used, slipped, outrun, lost, back>>

\* The job panics; the deferred call takes it off the active set.
JobPanic(j) ==
    /\ At(j, "review") /\ Spends("fault")
    /\ Goes(j, "clear")
    /\ UNCHANGED <<roomVars, storeVars, active, history>>

JobFinish(j) ==
    /\ At(j, "finish")
    /\ Goes(j, IF job[j].result = "reviewed" THEN "advance" ELSE "clear")
    /\ Saved(j, IF job[j].result = "failed" THEN "error" ELSE "done")
    /\ UNCHANGED <<roomVars, exp, active, history>>

\* Mutant of Target: the cursor goes to the end of the transcript.
TargetEnd(to) == Len(msgs)

\* Where AdvanceLearningCursor puts the cursor: never back, never past the end.
Target(to) ==
    LET end == IF to > Len(msgs) THEN Len(msgs) ELSE to
    IN  IF end > RangeStart THEN end ELSE RangeStart

\* Under the turn lock; a failing save is only logged.
JobAdvance(j) ==
    /\ At(j, "advance") /\ ~turn
    /\ Goes(j, "clear")
    /\ \/ cursor' = Target(job[j].to) /\ UNCHANGED <<used, slipped>>
       \/ Target(job[j].to) # cursor /\ cursor' = cursor /\ slipped' = TRUE /\ Spends("fault")
    /\ UNCHANGED <<msgs, turn, copy, storeVars, active, reviewed, again, outrun, lost, back>>

JobClear(j) ==
    /\ At(j, "clear")
    /\ Goes(j, "ended")
    /\ active' = active \ {j}
    /\ UNCHANGED <<roomVars, storeVars, used, history>>

-----------------------------------------------------------------------------
(* Deletion and restart.                                                   *)

\* A log entry is deleted, with its job.
DeleteJob(j) ==
    /\ row[j] # "none" /\ Spends("del")
    /\ row' = [row EXCEPT ![j] = "none"]
    /\ UNCHANGED <<roomVars, exp, active, job, history>>

\* An experience is deleted, and the jobs that came from it.
DeleteExperience(j) ==
    /\ j \in exp /\ Spends("del")
    /\ exp' = exp \ {j}
    /\ row' = [row EXCEPT ![j] = "none"]
    /\ UNCHANGED <<roomVars, active, job, history>>

\* RecoverStaleLearningJobs: of the unfinished rows, those that are old enough.
Recovered(old) == row' = [j \in Jobs |-> IF j \in old THEN "error" ELSE row[j]]

Restart ==
    /\ Spends("crash")
    /\ turn' = FALSE /\ active' = {}
    /\ copy' = [w \in Writers |-> IF copy[w].pc = "held" THEN [NoCopy EXCEPT !.pc = "ended"] ELSE copy[w]]
    /\ slipped' = (slipped \/ \E j \in Jobs : job[j].result = "reviewed" /\ job[j].pc # "ended")
    /\ job' = [j \in Jobs |-> IF job[j].pc = "none" THEN job[j] ELSE [job[j] EXCEPT !.pc = "ended"]]
    /\ \E old \in SUBSET {j \in Jobs : row[j] \in {"queued", "running"}} : Recovered(old)
    /\ UNCHANGED <<msgs, cursor, exp, reviewed, again, outrun, lost, back>>

-----------------------------------------------------------------------------
TurnEnd == TurnEndQuiet \/ TurnEndFails \/ \E j \in Jobs : TurnEndQueues(j)
Running(j) ==
    \/ JobLoad(j) \/ JobCapture(j) \/ JobStart(j) \/ JobReview(j) \/ JobFinish(j)
    \/ JobAdvance(j) \/ JobClear(j)

Next ==
    \/ TurnBegin \/ TurnMessage \/ Compact \/ TurnEnd
    \/ \E w \in Writers : CopyLoad(w) \/ CopySave(w) \/ CopyDrop(w)
    \/ \E j \in Jobs : Running(j) \/ JobPanic(j) \/ DeleteJob(j) \/ DeleteExperience(j)
    \/ Restart

Spec == Init /\ [][Next]_vars

\* A job runs on, the model answers or fails, and the cursor's turn lock is given to a job
\* that goes on waiting for it.
FairSpec == Spec /\ \A j \in Jobs : WF_vars(Running(j)) /\ SF_vars(JobAdvance(j)) /\ WF_vars(TurnEnd)

-----------------------------------------------------------------------------
(* Properties.                                                             *)

JobRec == [pc : {"none", "load", "capture", "start", "review", "finish", "advance", "clear", "ended"},
           from : Nat, to : Nat, result : {"none", "failed", "fallback", "reviewed"}]
CopyRec == [pc : {"none", "held", "ended"}, msgs : Seq(Nat), cursor : Nat]

TypeOK ==
    /\ msgs \in Seq(Nat) /\ cursor \in Nat /\ turn \in BOOLEAN
    /\ row \in [Jobs -> {"none", "queued", "running", "done", "error"}] /\ exp \subseteq Jobs
    /\ active \subseteq Jobs
    /\ job \in [Jobs -> JobRec]
    /\ copy \in [Writers -> CopyRec]
    /\ used \in [Harms \cup {"msg"} -> Nat]
    /\ reviewed \subseteq Nat
    /\ again \in BOOLEAN /\ slipped \in BOOLEAN /\ outrun \in BOOLEAN
    /\ lost \in BOOLEAN /\ back \in BOOLEAN

\* The cursor of a conversation "remains at the captured boundary when a review fails or
\* newer messages arrive": what it leaves behind has been reviewed, however turns, failed
\* reviews, failing saves, restarts and saves of an old cursor interleave, until a
\* compaction, or the save of an old transcript, takes messages away that it counts.
NothingSkipped ==
    used["compact"] = 0 /\ ~lost =>
        \A i \in DOMAIN msgs : i <= cursor => msgs[i] \in reviewed \cup {0}

\* No message is reviewed twice, since a second review "could double-apply mutations", but
\* after a review whose cursor was not saved, a restart, a compaction that left the cursor
\* behind the end, where LearningMessageRangeForConversation starts all over, or a notice or
\* rename that wrote an old conversation over a newer one.
NotReviewedTwice == again => slipped \/ outrun \/ lost \/ back

\* The cursor "advances after a successful review and remains at the captured boundary":
\* but for a compaction it is never taken back (domain/conversation.go).  A claim that fails:
\* a notice or rename may save the old cursor over the new one.
NeverTakenBack == [][used["compact"] = 0 => cursor' >= cursor]_cursor

\* "so a dead job cannot wedge coalescing for its conversation": the active set is empty
\* again in the end, however the job ends.
ActiveDrains == active # {} ~> active = {}

=============================================================================

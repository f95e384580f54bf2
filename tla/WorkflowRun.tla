---------------------------- MODULE WorkflowRun ----------------------------
(***************************************************************************)
(* The run model of the automation engine: the statuses of a workflow run  *)
(* and of its jobs and steps, the transitions of domain/run.go, the        *)
(* scheduling rules of domain/dag.go and the merge that every write of a   *)
(* run goes through (domain/workflow_run.go).  Everything here is a pure   *)
(* operator on a run record; WorkflowExec interleaves the goroutines that  *)
(* apply them.                                                             *)
(*                                                                         *)
(* A run is the snapshot a goroutine reads from, and writes to, the store: *)
(*   status, wakeAt - of the run; wakeAt names the wait step whose instant *)
(*                    is the run's wake time, or NoWake (a nil WakeAt)     *)
(*   jobs           - per job its status, its steps' statuses and whether  *)
(*                    a heartbeat was ever recorded (HeartbeatAt # nil)    *)
(* A step is its position in the job.  Positions beyond the last step of a *)
(* job do not exist in the code: they stay queued and nothing reads them.  *)
(***************************************************************************)
EXTENDS Integers, Sequences, FiniteSets

CONSTANTS
    Jobs,             \* the job ids of the workflow definition
    Needs,            \* Needs[j]: the jobs that j lists under needs
    ContinueOnError,  \* the jobs with continue_on_error
    Conditional,      \* the jobs with an if: condition
    Kind,             \* Kind[j][k]: what step k of job j does
    MaxSteps          \* the length of the longest job

StepKinds == {"run", "wait", "uses", "agent"}

ASSUME NeedsAssumption == Needs \in [Jobs -> SUBSET Jobs]
ASSUME FlagsAssumption == ContinueOnError \subseteq Jobs /\ Conditional \subseteq Jobs
ASSUME StepsAssumption ==
    /\ MaxSteps \in Nat
    /\ Kind \in [Jobs -> Seq(StepKinds)]
    /\ \A j \in Jobs : Len(Kind[j]) <= MaxSteps

Steps == 1 .. MaxSteps
WaitSteps == {s \in Jobs \X Steps : s[2] <= Len(Kind[s[1]]) /\ Kind[s[1]][s[2]] = "wait"}
NoWake == <<>>

Status == {"pending", "queued", "blocked", "waiting", "running",
           "success", "failed", "cancelled", "skipped", "expired"}

JobRun == [status : Status, steps : [Steps -> Status], beat : BOOLEAN]
Run == [status : Status, wakeAt : (Jobs \X Steps) \cup {NoWake}, jobs : [Jobs -> JobRun]]

IsTerminal(s) == s \in {"success", "failed", "cancelled", "skipped", "expired"}
IsActive(s) == s \in {"pending", "queued", "running", "waiting"}

\* What NewWorkflowRun builds and StartRun stores.
NewRun == [status |-> "queued", wakeAt |-> NoWake,
           jobs |-> [j \in Jobs |-> [status |-> "queued",
                                     steps  |-> [k \in Steps |-> "queued"],
                                     beat   |-> FALSE]]]

----------------------------------------------------------------------------
(* The merge of a snapshot into the stored run.                            *)

StatusRank(s) ==
    CASE s \in {"pending", "queued"}  -> 1
      [] s = "running"                -> 2
      [] s = "waiting"                -> 3
      [] s \in {"blocked", "skipped"} -> 4
      [] OTHER                        -> 5

FinishedSteps(jr) == Cardinality({k \in Steps : IsTerminal(jr.steps[k])})

\* A parked status gives way to the statuses a woken run goes through.
Yields(dst, src) == dst = "waiting" /\ src \in {"queued", "pending", "running"}

MergeStatusLast(dst, src) == src

MergeStatus(dst, src) ==
    IF Yields(dst, src) \/ StatusRank(src) >= StatusRank(dst) THEN src ELSE dst

MergeJobRunBySteps(dst, src) == IF FinishedSteps(src) >= FinishedSteps(dst) THEN src ELSE dst

MergeJobRun(dst, src) ==
    IF \/ Yields(dst.status, src.status)
       \/ StatusRank(src.status) > StatusRank(dst.status)
       \/ /\ StatusRank(src.status) = StatusRank(dst.status)
          /\ FinishedSteps(src) >= FinishedSteps(dst)
    THEN src ELSE dst

MergeRun(dst, src) ==
    LET status == MergeStatus(dst.status, src.status)
    IN  [status |-> status,
         wakeAt |-> IF src.status = "waiting" \/ status # "waiting"
                    THEN src.wakeAt ELSE dst.wakeAt,
         jobs   |-> [j \in Jobs |-> MergeJobRun(dst.jobs[j], src.jobs[j])]]

----------------------------------------------------------------------------
(* Scheduling rules.                                                       *)

\* What a need must have become for its dependents to run.
NeedMet(run, d) ==
    \/ run.jobs[d].status = "success"
    \/ run.jobs[d].status \in {"failed", "cancelled", "skipped", "expired"} /\ d \in ContinueOnError

ReadyJobsAnyNeed(run) ==
    {j \in Jobs : /\ run.jobs[j].status \in {"queued", "pending"}
                  /\ Needs[j] = {} \/ \E d \in Needs[j] : NeedMet(run, d)}

ReadyJobs(run) ==
    {j \in Jobs : /\ run.jobs[j].status \in {"queued", "pending"}
                  /\ \A d \in Needs[j] : NeedMet(run, d)}

ClaimJobs(run, ready) ==
    [run EXCEPT !.jobs = [j \in Jobs |-> IF j \in ready THEN [run.jobs[j] EXCEPT !.status = "running"]
                                                        ELSE run.jobs[j]]]

\* The dependents that the walk of BlockedByFailure enters: those reachable from
\* the failed job through jobs that are not success, failed, cancelled or running.
BlockedByFailure(run, failed) ==
    LET Open(j) == run.jobs[j].status \notin {"success", "failed", "cancelled", "running"}
        Closed(S) == \A j \in Jobs : Open(j) /\ Needs[j] \cap (S \cup {failed}) # {} => j \in S
    IN  IF failed \in ContinueOnError THEN {}
        ELSE {j \in Jobs : \A S \in SUBSET Jobs : Closed(S) => j \in S}

----------------------------------------------------------------------------
(* Transitions of a run.                                                   *)

BeginRunning(run) == IF run.status = "waiting" THEN run ELSE [run EXCEPT !.status = "running"]

SetJob(run, j, s) == [run EXCEPT !.jobs[j].status = s]
SetStep(run, j, k, s) == [run EXCEPT !.jobs[j].steps[k] = s]

\* Step, job and run are parked until the wait step's instant.
ParkWait(run, j, k) ==
    [SetJob(SetStep(run, j, k, "waiting"), j, "waiting")
        EXCEPT !.status = "waiting", !.wakeAt = <<j, k>>]

WakeRunOnly(run) == [run EXCEPT !.status = "queued", !.wakeAt = NoWake]

WakeAllSteps(run) ==
    [run EXCEPT !.status = "queued", !.wakeAt = NoWake,
        !.jobs = [j \in Jobs |-> IF run.jobs[j].status # "waiting" THEN run.jobs[j]
                                 ELSE NewRun.jobs[j]]]

WakeWaitingRun(run) ==
    [run EXCEPT !.status = "queued", !.wakeAt = NoWake,
        !.jobs = [j \in Jobs |->
            IF run.jobs[j].status # "waiting" THEN run.jobs[j]
            ELSE [run.jobs[j] EXCEPT !.status = "queued",
                    !.steps = [k \in Steps |-> IF run.jobs[j].steps[k] = "waiting"
                                               THEN "queued" ELSE run.jobs[j].steps[k]]]]]

\* The job fails and what depends on it is blocked, all in the same snapshot.
FailJob(run, j) ==
    LET failed == SetJob(run, j, "failed")
        stuck == BlockedByFailure(failed, j)
    IN  [failed EXCEPT !.jobs = [i \in Jobs |-> IF i \in stuck THEN [failed.jobs[i] EXCEPT !.status = "blocked"]
                                                               ELSE failed.jobs[i]]]

JobsIn(run, S) == {j \in Jobs : run.jobs[j].status \in S}

FinalizeOptimistic(run) ==
    IF \/ run.status \in {"waiting", "blocked"}
       \/ JobsIn(run, {"running", "queued", "pending", "waiting"}) # {}
    THEN run ELSE [run EXCEPT !.status = "success"]

\* Summary and Finalize: the verdict, once no job is left to run or to resume.
Finalize(run) ==
    IF \/ run.status \in {"waiting", "blocked"}
       \/ JobsIn(run, {"running", "queued", "pending", "waiting"}) # {}
    THEN run
    ELSE [run EXCEPT !.status =
            IF \/ JobsIn(run, {"failed"}) # {}
               \/ /\ JobsIn(run, {"blocked"}) # {}
                  /\ JobsIn(run, {"success", "skipped"}) # Jobs
            THEN "failed" ELSE "success"]

CancelMisspelt(run) == IF IsTerminal(run.status) THEN run ELSE [run EXCEPT !.status = "canceled"]

Cancel(run) ==
    IF IsTerminal(run.status) THEN run
    ELSE [run EXCEPT !.status = "cancelled",
            !.jobs = [j \in Jobs |-> IF IsActive(run.jobs[j].status)
                                     THEN [run.jobs[j] EXCEPT !.status = "cancelled"]
                                     ELSE run.jobs[j]]]

\* recordAsyncFailure: the run and every job that is not terminal fail.
FailAll(run) ==
    [run EXCEPT !.status = "failed",
        !.jobs = [j \in Jobs |-> IF IsTerminal(run.jobs[j].status) THEN run.jobs[j]
                                 ELSE [run.jobs[j] EXCEPT !.status = "failed"]]]

\* RecoverStale on one run: running jobs whose heartbeat went silent fail.
StaleFailed(run) ==
    IF run.status # "running" THEN run
    ELSE [run EXCEPT !.jobs = [j \in Jobs |->
            IF run.jobs[j].status = "running" /\ run.jobs[j].beat
            THEN [run.jobs[j] EXCEPT !.status = "failed"] ELSE run.jobs[j]]]
============================================================================

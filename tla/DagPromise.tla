----------------------------- MODULE DagPromise -----------------------------
(***************************************************************************)
(* What the automation engine promises of a run, whatever goroutines, lost *)
(* processes and stale snapshots are behind it: a job is handed out only   *)
(* when each job it needs is settled, and what the store once said is      *)
(* settled, finished or over it says for good.  WorkflowExec implements    *)
(* this specification.                                                     *)
(***************************************************************************)
CONSTANTS
    Jobs,       \* the jobs of the workflow
    Needs       \* Needs[j]: the jobs that j waits for

VARIABLES
    active,     \* the jobs somebody works on
    settled,    \* the jobs that no pass will hand out any more
    finished,   \* the settled jobs with a result of their own
    over        \* the run has its verdict

vars == <<active, settled, finished, over>>

Init == active = {} /\ settled = {} /\ finished = {} /\ over = FALSE

\* The record of the run only grows.
Recorded ==
    /\ settled \subseteq settled' /\ finished \subseteq finished'
    /\ finished' \subseteq settled'
    /\ over => over'

\* Jobs are left alone, by success, failure, cancellation or the death of the process.
Leave == Recorded /\ active' \subseteq active

\* The jobs J are handed out.
Begin(J) ==
    /\ \A j \in J : Needs[j] \subseteq settled
    /\ Recorded /\ active' = active \cup J

Next == Leave \/ \E J \in SUBSET Jobs : Begin(J)

Spec == Init /\ [][Next]_vars
=============================================================================

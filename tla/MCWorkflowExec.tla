-------------------------- MODULE MCWorkflowExec --------------------------
(* Small workflow definitions for model checking WorkflowExec. *)
EXTENDS WorkflowExec

\* Two parallel jobs, a dependent of one of them, and a job that needs both branches.
ForkJobs == {"build", "lint", "test", "deploy"}
ForkNeeds == [j \in ForkJobs |-> CASE j = "test" -> {"build"}
                                   [] j = "deploy" -> {"test", "lint"}
                                   [] OTHER -> {}]
ForkKind == [j \in ForkJobs |-> CASE j = "lint" -> <<"agent">>
                                  [] j = "deploy" -> <<"uses">>
                                  [] j = "build" -> <<"run", "run">>
                                  [] OTHER -> <<"run">>]

\* A chain whose first job pauses between two steps.
ChainJobs == {"announce", "publish"}
ChainNeeds == [j \in ChainJobs |-> IF j = "publish" THEN {"announce"} ELSE {}]
ChainKind == [j \in ChainJobs |-> IF j = "announce" THEN <<"run", "wait", "run">> ELSE <<"wait", "run">>]

\* Two independent jobs, one of which pauses.
PairJobs == {"pause", "work"}
PairNeeds == [j \in PairJobs |-> {}]
PairKind == [j \in PairJobs |-> IF j = "pause" THEN <<"wait", "run">> ELSE <<"run">>]
============================================================================

-------------------------- MODULE MCTurnLifecycle --------------------------
(* Instances of TurnLifecycle: which announcement is of which kind.        *)
EXTENDS TurnLifecycle

CONSTANTS mail, event, notice

\* A peer message, an automation event and a configuration notice.
Mixed == [n \in Notes |-> IF n = mail THEN "peer" ELSE IF n = event THEN "wake" ELSE "plain"]
=============================================================================

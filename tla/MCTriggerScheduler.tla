------------------------ MODULE MCTriggerScheduler --------------------------
EXTENDS TriggerScheduler

\* A workflow with a recurring trigger, whose missed occurrences are all caught up with,
\* and one with a debounced event trigger.
TwoOf == [w \in Workflows |-> IF w = "backup" THEN <<"nightly">> ELSE <<"onPush">>]
TwoKind == [t \in Triggers |-> IF t = "nightly" THEN "interval" ELSE "event"]
TwoPeriod == [t \in Triggers |-> 1]
TwoMissed == [w \in Workflows |-> "all"]

\* One time trigger in all: its row cannot be another's.
OwnRow == [t \in Triggers |-> t]
=============================================================================

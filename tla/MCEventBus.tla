----------------------------- MODULE MCEventBus -----------------------------
(* Instances of EventBus for TLC: the sets of events, publishers and subscribers are model values of the configurations. *)
EXTENDS EventBus
=============================================================================

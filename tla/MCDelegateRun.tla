--------------------------- MODULE MCDelegateRun ---------------------------
(* Instances of DelegateRun for TLC: the callers, as model values of the configurations. *)
EXTENDS DelegateRun
=============================================================================

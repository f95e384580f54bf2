------------------------------ MODULE MCAcpRun ------------------------------
(* Instances of AcpRun for TLC: the runs of one agent, as model values of the configurations. *)
EXTENDS AcpRun
=============================================================================

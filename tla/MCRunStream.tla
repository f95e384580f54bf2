----------------------------- MODULE MCRunStream -----------------------------
(* Instances of RunStream for TLC: runs and subscribers are model values of the configurations. *)
EXTENDS RunStream
=============================================================================

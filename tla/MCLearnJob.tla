----------------------------- MODULE MCLearnJob -----------------------------
(* Instances of LearnJob for TLC: the jobs of one conversation, as model values of the configurations. *)
EXTENDS LearnJob
=============================================================================

---------------------------- MODULE MCStepFiles ----------------------------
(* Instances of StepFiles for TLC. *)
EXTENDS StepPages, TLC

\* Handlers are alike.
Symmetry == Permutations(Requests)
=============================================================================

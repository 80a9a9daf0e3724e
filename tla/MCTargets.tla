----------------------------- MODULE MCTargets -----------------------------
(* Instances of Targets and TargetViews for TLC. *)
EXTENDS TargetViews, TLC

\* Handlers are alike, and so are users.  Not used by the liveness run.
Symmetry == Permutations(Requests) \union Permutations(Users)
=============================================================================

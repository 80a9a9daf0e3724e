---------------------------- MODULE MCStatistics ----------------------------
(* Instances of Statistics for TLC: every comment is about the step s1. *)
EXTENDS Statistics

CONSTANT s1

AboutS1 == [c \in CommentTasks |-> s1]

\* The workers do the same; for runs without liveness.
WorkerSymmetry == Permutations(Workers)
=============================================================================

------------------------------ MODULE MCAwards ------------------------------
(* Instances of Awards for TLC. *)
EXTENDS Awards, TLC

\* Handlers, workers and file names are alike.
Symmetry == Permutations(Requests) \union Permutations(Workers) \union Permutations(Files)
=============================================================================

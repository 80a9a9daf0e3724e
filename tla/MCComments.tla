----------------------------- MODULE MCComments -----------------------------
(***************************************************************************)
(* Comments for TLC: the requests to comment, and the columns, are alike.  *)
(***************************************************************************)
EXTENDS Comments, TLC

CommentSymmetry == Permutations(Kinds) \union Permutations(Commenters)
=============================================================================

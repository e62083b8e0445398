------------------------------ MODULE MCReviewV2 ------------------------------
(***************************************************************************)
(* Two reviewers and an administrator who is also a reviewer: every way to *)
(* fill two rounds, and one to appeal to.  Three neighbouring anchors, so  *)
(* that reviewers agree, nearly agree and disagree, on two dimensions, so  *)
(* that a round can be half done.                                          *)
(***************************************************************************)
EXTENDS ReviewV2, TLC

Interchangeable == Permutations(Reviewer \ Admin) \cup Permutations(Dimension)
===============================================================================

----------------------------- MODULE MCReviewList -----------------------------
(* ReviewList for TLC: the constants are given in the .cfg files. *)
EXTENDS ReviewList
====

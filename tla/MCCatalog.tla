----------------------------- MODULE MCCatalog -----------------------------
EXTENDS Catalog, TLC

\* user 1 has one review and a full profile, user 2 neither
MCCondition == [e \in Events |-> 1]
MCReviewCount == (1 :> 1) @@ (2 :> 0)
\* the product starts with one displayed review
MCSeedReviews == [p \in Products |-> 1]
====

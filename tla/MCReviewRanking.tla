------------------------- MODULE MCReviewRanking -------------------------
EXTENDS ReviewRanking, TLC

\* legacy rows: user 1 reviewed products 1 and 2, user 2 product 1 after user 1
MCSeedReviews == (<<1, 1>> :> 1) @@ (<<2, 1>> :> 2) @@ (<<1, 2>> :> 3)
\* a promotion raising the review point and the multiple bonus; the first
\* bonus row has no event_point
MCEventPoints == [review |-> 20, multiple |-> 5, first |-> 0]
\* the locals and the request of a worker back at "idle" are dead: the
\* next Receive overwrites both, so states that differ only there are
\* explored once
MCView == <<created, firstLog, lb, flag, clock, weekStart, promo, imported, pc,
            [w \in Workers |-> IF pc[w] = "idle" THEN None ELSE req[w]],
            [w \in Workers |-> IF pc[w] = "idle" THEN None ELSE loc[w]],
            nreq, clean, sets, notices>>
====

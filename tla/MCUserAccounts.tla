--------------------------- MODULE MCUserAccounts ---------------------------
EXTENDS UserAccounts, TLC

\* user 1 has reviewed product 1 and user 2 liked it, which left user 1 a
\* like message; user 2 is linked to the social uid u1; user 3 has no
\* account yet.  Seeded rows take negative ids, rows created by request n
\* the id n.
MCSeedRows ==
    (1 :> [active |-> TRUE, pw |-> "p1", rc |-> 1, lc |-> 1]) @@
    (2 :> [active |-> TRUE, pw |-> "p1", rc |-> 0, lc |-> 0]) @@
    (3 :> None)

MCSeedReviews ==
    {[id |-> -1, user |-> 1, product |-> 1, display |-> TRUE, likes |-> 1, reports |-> 0]}

MCSeedLikes == {[writer |-> 1, product |-> 1, register |-> 2]}

MCSeedSocial == {[user |-> 2, uid |-> "u1"]}

MCSeedMsgs == {[id |-> -2, user |-> 1, ref |-> -1, active |-> TRUE, updated |-> 0]}

\* an idle worker's request and loaded objects are dead: Receive and the
\* load steps overwrite them before any step reads them
MCView ==
    <<row, social, reviews, likes, reports, msgs, checks, clock, pc, nreq, lastPw,
      seceded, hidden, dropped, gone,
      [w \in Workers |-> IF pc[w] = "idle" THEN None ELSE <<req[w], obj[w], robj[w]>>]>>
====

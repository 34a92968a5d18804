--------------------------- MODULE MCRankStore ---------------------------
EXTENDS RankStore, TLC
\* two members tied at 10 and one ahead at 20
MCInitBoard == (1 :> 10) @@ (2 :> 10) @@ (3 :> 20)
====

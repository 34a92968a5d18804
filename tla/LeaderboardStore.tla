-------------------------- MODULE LeaderboardStore --------------------------
(***************************************************************************)
(* What the leaderboard store adapter promises (spec section 4.2): one     *)
(* ordered-score set per period, changed by atomic increments and          *)
(* removals, whose reads give a tie-aware rank.  Absence, not a zero       *)
(* entry, means "no score".  One period is enough: the adapter's periods   *)
(* are separate keys that no operation touches together.                   *)
(***************************************************************************)
EXTENDS Integers, FiniteSets, FiniteSetsExt

CONSTANTS Members,      \* user ids
          Deltas,       \* the increments callers apply
          InitBoard,    \* the board the store starts from
          Absent        \* "not a member"

VARIABLE board

Entries(b) == {m \in Members : b[m] # Absent}

Incr(m, d) == board' = [board EXCEPT ![m] = IF @ = Absent THEN d ELSE @ + d]
Remove(m) == board' = [board EXCEPT ![m] = Absent]

Init == board = InitBoard
Next == \E m \in Members : Remove(m) \/ \E d \in Deltas : Incr(m, d)
Spec == Init /\ [][Next]_board

\* the rank every member with m's score shares: one more than the number of
\* members with a strictly higher score; the ratio is the rounded-up
\* percentage of the board at or above it
RankOf(b, m) ==
    IF b[m] = Absent THEN Absent
    ELSE LET rank == 1 + Quantify(Entries(b), LAMBDA v : b[v] > b[m])
             total == Cardinality(Entries(b))
         IN  [score |-> b[m], rank |-> rank,
              ratio |-> IF total = 0 THEN 100 ELSE (rank * 100 + total - 1) \div total]
====

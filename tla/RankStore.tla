----------------------------- MODULE RankStore -----------------------------
(***************************************************************************)
(* The leaderboard store adapter of cash_db/redis_utils.py for one period: *)
(* the primary sorted set and its _copy.  Every Redis command is one step: *)
(* period_zincrby and period_zrem write the primary, then the copy, and    *)
(* the request may die between the two; get_data and get_mdata read the    *)
(* primary and fall back to the copy in a second command; get_user_rank   *)
(* issues zscore, zrangebyscore, zrevrank and zcard one after another.     *)
(***************************************************************************)
EXTENDS Integers, FiniteSets, FiniteSetsExt, Sequences

CONSTANTS Members,       \* user ids (integers: ties are ordered by member)
          Deltas,        \* zincrby amounts callers use
          InitBoard,     \* primary = copy at the start
          Writers,       \* requests that write the period
          Readers,       \* requests that call get_user_rank
          Failures,      \* may a request die between primary and copy?
          MaxOps,        \* bound on writes
          MaxReads,      \* bound on get_user_rank calls
          PageSizes,     \* limit values of the ranking list
          None

VARIABLES prim, copy,    \* rank_list_<period> and rank_list_<period>_copy
          wpc, wop,      \* writer position and the command it is applying
          rpc, rtab, rloc, \* reader call, table it asks next, its locals
          nops, nreads,
          writes, failed \* history: table writes so far; did a write fail?

vars == <<prim, copy, wpc, wop, rpc, rtab, rloc, nops, nreads, writes, failed>>

-----------------------------------------------------------------------------
(* Redis commands on one table.                                            *)

Entries(t) == {m \in Members : t[m] # None}

\* mutation: zincrby overwrites the score, as zadd would
ApplyAsZadd(t, op) ==
    IF op.kind = "zrem" THEN [t EXCEPT ![op.m] = None] ELSE [t EXCEPT ![op.m] = op.d]

\* zincrby creates a missing member with the increment; zrem drops it
Apply(t, op) ==
    IF op.kind = "zrem" THEN [t EXCEPT ![op.m] = None]
    ELSE [t EXCEPT ![op.m] = IF @ = None THEN op.d ELSE @ + op.d]

\* mutation: the copy loses the member only on zincrby, never on zrem
CopyAfterNoRem(op) == IF op.kind = "zrem" THEN copy ELSE Apply(copy, op)

\* the second iteration of the loop over get_redis_tables
CopyAfter(op) == Apply(copy, op)

\* zrangebyscore(s, s): members at score s in ascending member order; the
\* code keeps only users[-1], the greatest
AtScore(t, s) == {m \in Entries(t) : t[m] = s}

\* mutation: users[0] instead of users[-1]
LastOfFirst(users) == Min(users)

LastOf(users) == Max(users)

\* mutation: zrevrank counted from 1
ZrevrankOneBased(t, m) ==
    1 + Quantify(Entries(t), LAMBDA v : t[v] > t[m] \/ (t[v] = t[m] /\ v > m))

\* zrevrank: 0-based position in descending (score, member) order
Zrevrank(t, m) ==
    Quantify(Entries(t), LAMBDA v : t[v] > t[m] \/ (t[v] = t[m] /\ v > m))

\* zrevrange(t, start, end) with 0 <= start: the members from position
\* start to end (inclusive, cut at the last) in descending (score, member)
\* order
Zrevrange(t, start, end) ==
    LET n == Cardinality(Entries(t))
        at(i) == CHOOSE m \in Entries(t) : Zrevrank(t, m) = i
    IN [i \in 1..(Min({end + 1, n}) - start) |-> at(start + i - 1)]

\* period_zrevrange through get_mdata: the copy is asked when the primary
\* answers an empty list
RevRange(start, end) ==
    LET first == Zrevrange(prim, start, end)
    IN IF first # <<>> THEN first ELSE Zrevrange(copy, start, end)

\* mutation: every page's window starts at its own first entry
UsersPageNoOverlap(limit, cursor) ==
    LET rows == RevRange(limit * (cursor - 1), limit * cursor)
    IN CASE rows = <<>> -> [list |-> <<>>, next |-> None]
         [] cursor = 1 -> [list |-> SubSeq(rows, 1, Min({limit, Len(rows)})), next |-> None]
         [] Len(rows) = limit + 2 -> [list |-> SubSeq(rows, 2, limit + 1), next |-> cursor + 1]
         [] OTHER -> [list |-> Tail(rows), next |-> None]

\* UserService.get_list_from_redis: from the second page on, the window
\* starts one entry early (the previous page's last, for tie display) and
\* a full window has limit + 2 entries; the first page keeps its first
\* limit, a full later page drops both ends and links the next cursor,
\* and a short one is the last page and drops its first entry.  Every id
\* is a User that exists, so the hmget and User.objects.get fallbacks and
\* the get_user_rank decoration keep the ids and their order.
UsersPage(limit, cursor) ==
    LET start == IF cursor > 1 THEN limit * (cursor - 1) - 1 ELSE limit * (cursor - 1)
        rows == RevRange(start, limit * cursor)
    IN CASE rows = <<>> -> [list |-> <<>>, next |-> None]
         [] cursor = 1 -> [list |-> SubSeq(rows, 1, Min({limit, Len(rows)})), next |-> None]
         [] Len(rows) = limit + 2 -> [list |-> SubSeq(rows, 2, limit + 1), next |-> cursor + 1]
         [] OTHER -> [list |-> Tail(rows), next |-> None]

Table(i) == IF i = 1 THEN prim ELSE copy

\* what zscore through get_data returns while no reader is between its two
\* commands: the refinement mapping to the abstract store
View == [m \in Members |-> IF prim[m] # None THEN prim[m] ELSE copy[m]]

LB == INSTANCE LeaderboardStore WITH Absent <- None, board <- View

-----------------------------------------------------------------------------
(* Writers: period_zincrby and period_zrem.                                *)

Ops == {[kind |-> "zincrby", m |-> m, d |-> d] : m \in Members, d \in Deltas}
       \cup {[kind |-> "zrem", m |-> m, d |-> 0] : m \in Members}

\* the command on the primary, the first table of the loop
WritePrimary(w) ==
    /\ wpc[w] = "idle" /\ nops < MaxOps
    /\ \E op \in Ops :
          /\ wop' = [wop EXCEPT ![w] = op]
          /\ prim' = Apply(prim, op)
    /\ wpc' = [wpc EXCEPT ![w] = "copy"]
    /\ nops' = nops + 1
    /\ writes' = writes + 1
    /\ UNCHANGED <<copy, rpc, rtab, rloc, nreads, failed>>

\* the same command on the copy
WriteCopy(w) ==
    /\ wpc[w] = "copy"
    /\ copy' = CopyAfter(wop[w])
    /\ wpc' = [wpc EXCEPT ![w] = "idle"]
    /\ writes' = writes + 1
    /\ UNCHANGED <<prim, wop, rpc, rtab, rloc, nops, nreads, failed>>

\* the connection fails before the copy is written: the exception ends the
\* request and nothing retries the copy
WriteFail(w) ==
    /\ Failures /\ wpc[w] = "copy"
    /\ wpc' = [wpc EXCEPT ![w] = "idle"]
    /\ failed' = TRUE
    /\ UNCHANGED <<prim, copy, wop, rpc, rtab, rloc, nops, nreads, writes>>

-----------------------------------------------------------------------------
(* Readers: get_user_rank, one Redis command per step.                     *)

Free(r) == rpc[r] \in {"idle", "done", "crashed"}

ReadBegin(r) ==
    /\ Free(r) /\ nreads < MaxReads
    /\ \E m \in Members :
          rloc' = [rloc EXCEPT ![r] = [m |-> m, s |-> None, last |-> None, rank |-> 0,
                     res |-> None, snap |-> writes,
                     half |-> \E w \in Writers : wpc[w] = "copy"]]
    /\ rpc' = [rpc EXCEPT ![r] = "zscore"]
    /\ rtab' = [rtab EXCEPT ![r] = 1]
    /\ nreads' = nreads + 1
    /\ UNCHANGED <<prim, copy, wpc, wop, nops, writes, failed>>

\* one command of get_data / get_mdata: a hit moves on to the next call of
\* get_user_rank, a miss on the primary asks the copy, a miss on both ends
\* the call with None
Step(r, hit, onHit, onMiss) ==
    \/ /\ hit
       /\ rpc' = [rpc EXCEPT ![r] = onHit]
       /\ rtab' = [rtab EXCEPT ![r] = 1]
    \/ /\ ~hit /\ rtab[r] = 1
       /\ rtab' = [rtab EXCEPT ![r] = 2]
       /\ UNCHANGED rpc
    \/ /\ ~hit /\ rtab[r] = 2
       /\ rpc' = [rpc EXCEPT ![r] = onMiss]
       /\ UNCHANGED rtab

\* score = period_zscore(period, id); None means "not ranked"
Zscore(r) ==
    LET v == Table(rtab[r])[rloc[r].m] IN
    /\ rpc[r] = "zscore"
    /\ Step(r, v # None, "zrange", "done")
    /\ rloc' = [rloc EXCEPT ![r].s = v]
    /\ UNCHANGED <<prim, copy, wpc, wop, nops, nreads, writes, failed>>

\* users = period_zrangebyscore(period, score, score); users[-1] of a None
\* result raises TypeError
Zrange(r) ==
    LET users == AtScore(Table(rtab[r]), rloc[r].s) IN
    /\ rpc[r] = "zrange"
    /\ Step(r, users # {}, "zrevrank", "crashed")
    /\ rloc' = IF users # {} THEN [rloc EXCEPT ![r].last = LastOf(users)] ELSE rloc
    /\ UNCHANGED <<prim, copy, wpc, wop, nops, nreads, writes, failed>>

\* rank = period_zrevrank(period, users[-1]) + 1; None + 1 raises TypeError
ZrevrankCall(r) ==
    LET t == Table(rtab[r])
        hit == t[rloc[r].last] # None
    IN
    /\ rpc[r] = "zrevrank"
    /\ Step(r, hit, "zcard", "crashed")
    /\ rloc' = IF hit THEN [rloc EXCEPT ![r].rank = Zrevrank(t, rloc[r].last) + 1]
               ELSE rloc
    /\ UNCHANGED <<prim, copy, wpc, wop, nops, nreads, writes, failed>>

\* total = period_zcard(period) reads the primary only; the result record
Zcard(r) ==
    LET total == Cardinality(Entries(prim))
        l == rloc[r]
    IN
    /\ rpc[r] = "zcard"
    /\ rloc' = [rloc EXCEPT ![r].res = [score |-> l.s, rank |-> l.rank,
                 ratio |-> IF total = 0 THEN 100 ELSE (l.rank * 100 + total - 1) \div total]]
    /\ rpc' = [rpc EXCEPT ![r] = "done"]
    /\ UNCHANGED <<prim, copy, wpc, wop, rtab, nops, nreads, writes, failed>>

-----------------------------------------------------------------------------

Init ==
    /\ prim = InitBoard
    /\ copy = InitBoard
    /\ wpc = [w \in Writers |-> "idle"]
    /\ wop = [w \in Writers |-> CHOOSE op \in Ops : TRUE]
    /\ rpc = [r \in Readers |-> "idle"]
    /\ rtab = [r \in Readers |-> 1]
    /\ rloc = [r \in Readers |-> [m |-> None, s |-> None, last |-> None, rank |-> 0,
                                   res |-> None, snap |-> 0, half |-> FALSE]]
    /\ nops = 0
    /\ nreads = 0
    /\ writes = 0
    /\ failed = FALSE

\* every write and read done
Finished ==
    /\ nops = MaxOps /\ nreads = MaxReads
    /\ \A w \in Writers : wpc[w] = "idle"
    /\ \A r \in Readers : Free(r)

Next ==
    \/ \E w \in Writers : WritePrimary(w) \/ WriteCopy(w) \/ WriteFail(w)
    \/ \E r \in Readers : ReadBegin(r) \/ Zscore(r) \/ Zrange(r) \/ ZrevrankCall(r)
                          \/ Zcard(r)
    \/ Finished /\ UNCHANGED vars

Spec == Init /\ [][Next]_vars

-----------------------------------------------------------------------------
(* Properties.                                                             *)

Score == Int \cup {None}

TypeOK ==
    /\ prim \in [Members -> Score] /\ copy \in [Members -> Score]
    /\ wpc \in [Writers -> {"idle", "copy"}]
    /\ rpc \in [Readers -> {"idle", "zscore", "zrange", "zrevrank", "zcard", "done",
                            "crashed"}]
    /\ \A r \in Readers :
          rloc[r].res \in {None} \cup
              [score : Int, rank : 1..Cardinality(Members), ratio : Nat]

\* The primary and the copy hold the same board whenever no period_zincrby
\* or period_zrem is between its two commands and none has failed: the two
\* writes of each command reach both tables and in the same order.
CopyMirrorsWhenQuiet ==
    (~failed /\ \A w \in Writers : wpc[w] = "idle") => copy = prim

\* A get_user_rank call that no write overlapped, started while no write
\* was half applied and before any write failed, returns what the abstract
\* store promises: the shared rank of its score and the rounded-up
\* percentage.
SerialReadCorrect ==
    \A r \in Readers :
        (rpc[r] = "done" /\ rloc[r].snap = writes /\ ~rloc[r].half /\ ~failed) =>
            rloc[r].res = LB!RankOf(View, rloc[r].m)

\* get_user_rank, however it interleaves with period_zincrby and period_zrem
\* of other requests, neither raises nor returns a rank below the board
\* (a ratio over 100 percent).
RankReadWellFormed ==
    \A r \in Readers :
        /\ rpc[r] # "crashed"
        /\ (rpc[r] = "done" /\ rloc[r].res # None) => rloc[r].res.ratio <= 100

\* A client reading the ranking list (users.py from_redis) page after page,
\* cursor 1, 2, ... up to the first empty page.
RECURSIVE PagesFrom(_, _)
PagesFrom(limit, cursor) ==
    LET pg == UsersPage(limit, cursor).list IN
    IF pg = <<>> \/ cursor > Cardinality(Members) THEN pg
    ELSE pg \o PagesFrom(limit, cursor + 1)

\* The board in rank order: what the pages together should list.
RankOrder(t) == Zrevrange(t, 0, Cardinality(Members))

\* While no write is half applied and none has failed, reading the
\* ranking list page by page lists every ranked member exactly once, in
\* rank order, for every page size: the one-entry overlap of the windows
\* from the second page on is dropped again by the slices, and the short
\* last page ends the walk.
PagesListBoard ==
    (~failed /\ \A w \in Writers : wpc[w] = "idle") =>
        \A limit \in PageSizes : PagesFrom(limit, 1) = RankOrder(prim)

\* The board that zscore reads through get_data changes only by whole
\* zincrby and zrem commands: the adapter implements the abstract store.
ViewRefines == LB!Spec

\* The same refinement up to the first write whose copy command failed:
\* every step that leaves no failure behind is a zincrby, a zrem or a
\* stutter of the get_data board.
ViewRefinesUntilFailure == LB!Init /\ [][~failed' => [LB!Next]_View]_vars
====

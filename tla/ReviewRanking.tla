--------------------------- MODULE ReviewRanking ---------------------------
(***************************************************************************)
(* The reviewer leaderboard of the review API: the review create, delete  *)
(* and "check my rank" request handlers of backends/api/v2/reviews.py,    *)
(* the scoring and reset logic of services/reviews.py and the redis       *)
(* helpers of cash_db/redis_utils.py.                                     *)
(*                                                                         *)
(* Relational state: one review row per (user, product), stamped with its *)
(* creation instant, and the first-review log (Review_first_log, primary  *)
(* key product id).  Redis state: one sorted set per period, and the      *)
(* review_is_written hash (the pending-reward flag).  Requests are served *)
(* by Workers; each handler is split at the points where the code leaves  *)
(* one store for another, so that requests of several workers interleave  *)
(* there.  A redis primary/copy pair is kept identical by every write and *)
(* is modelled as one sorted set here (see RankStore in the plan).        *)
(***************************************************************************)
EXTENDS Integers, FiniteSets, FiniteSetsExt, Sequences

CONSTANTS
    Users,              \* user ids (small naturals: redis orders ties by member)
    Products,           \* product ids
    Workers,            \* request-serving processes
    ReviewPoint,        \* Point 'review_point'
    MultipleBonus,      \* Point 'multiple_bonus_point'
    FirstBonus,         \* Point 'first_bonus_point'
    EventPoints,        \* event_point of each row: [review, multiple, first], 0 = unset
    SeedReviews,        \* legacy review rows: <<user, product>> -> creation instant
    WeekHelperBuilds,   \* builds checked: does kst_last_week_friday_18_00 resolve?
    MaxRequests,        \* bound on the number of requests served
    None

ASSUME Users \subseteq 1..9 /\ Products # {} /\ Workers # {}
ASSUME {ReviewPoint, MultipleBonus, FirstBonus} \subseteq Nat \ {0}
ASSUME EventPoints \in [{"review", "multiple", "first"} -> Nat]
ASSUME WeekHelperBuilds \subseteq BOOLEAN /\ WeekHelperBuilds # {} /\ MaxRequests \in Nat

Periods == {"all", "this_week"}

VARIABLES
    created,    \* created[u][p]: creation instant of u's review of p, 0 = none
    firstLog,   \* firstLog[p]: [user, at] of the Review_first_log row, or None
    lb,         \* lb[per][u]: sorted-set score of u, None = not a member
    flag,       \* review_is_written[u]: the stored is_first, or None ('' / absent)
    clock,      \* instant of the latest review insert
    weekStart,  \* kst_last_week_friday_18_00(): reviews after it are this week's
    promo,      \* utc_now() against the rows' event window: "before", "open", "after"
    imported,   \* the build: whether that helper's name resolves (fixed per run)
    pc, req, loc, \* per worker: program counter, request, locals
    nreq,       \* requests served so far (bounded by MaxRequests)
    clean,      \* history: no delete or rollover has disturbed u since its reset
    sets, notices \* history: flag sets, and check responses with a milestone

vars == <<created, firstLog, lb, flag, clock, weekStart, promo, imported, pc, req, loc,
          nreq, clean, sets, notices>>

-----------------------------------------------------------------------------
(* Relational queries.                                                     *)

Reviews(u) == {p \in Products : created[u][p] # 0}
InWeek(u, p) == created[u][p] > weekStart
ThisWeekReviews(u) == {p \in Reviews(u) : InWeek(u, p)}
FirstLogs(u) == {p \in Products : firstLog[p] # None /\ firstLog[p].user = u}
ThisWeekFirstLogs(u) == {p \in FirstLogs(u) : firstLog[p].at > weekStart}
Authors(p) == {u \in Users : created[u][p] # 0}

\* Review.objects.filter(product=p).order_by('_created_at')[:2] over the
\* review rows c: the authors of the oldest and of the second oldest
OldestAuthors(c, p) ==
    LET authors == {u \in Users : c[u][p] # 0}
        older(a, b) == c[a][p] < c[b][p]
        first == {a \in authors : \A b \in authors \ {a} : older(a, b)}
        second == {a \in authors \ first :
                     \A b \in authors \ (first \cup {a}) : older(a, b)}
    IN  <<first, second>>

-----------------------------------------------------------------------------
(* Sorted-set operations (redis_utils period helpers).                       *)

Zincrby(l, per, u, d) ==
    [l EXCEPT ![per][u] = IF @ = None THEN d ELSE @ + d]
Zrem(l, per, u) == [l EXCEPT ![per][u] = None]
Members(z) == {u \in Users : z[u] # None}

\* zrevrank: position of m in descending (score, member) order
Zrevrank(z, m) ==
    Quantify(Members(z), LAMBDA v : z[v] > z[m] \/ (z[v] = z[m] /\ v > m))

\* users[-1] of zrangebyscore(score, score): the greatest member at that score
LastAtScore(z, s) ==
    CHOOSE m \in Members(z) : z[m] = s /\ \A v \in Members(z) : z[v] = s => v <= m

\* get_user_rank on sorted set z: rank of the last member sharing the score
GetUserRank(z, u) ==
    IF z[u] = None THEN None
    ELSE LET rank == Zrevrank(z, LastAtScore(z, z[u])) + 1
             total == Cardinality(Members(z))
         IN  [score |-> z[u], rank |-> rank,
              ratio |-> IF total = 0 THEN 100 ELSE (rank * 100 + total - 1) \div total]

-----------------------------------------------------------------------------
(* Scoring (services/reviews.py).                                          *)

\* get_review_points: a row's event_point replaces its point while utc_now()
\* lies strictly inside the event window, unless the event_point is falsy
PointOf(point, eventPoint) == IF promo = "open" /\ eventPoint # 0 THEN eventPoint ELSE point

\* every caller reads all three rows afresh, at the moment it calls
Points == [review |-> PointOf(ReviewPoint, EventPoints.review),
           multiple |-> PointOf(MultipleBonus, EventPoints.multiple),
           first |-> PointOf(FirstBonus, EventPoints.first)]

\* mutation: this week's multiple bonus counted from this week's reviews alone
ResetScoresWeekBonus(u) ==
    LET n == Cardinality(Reviews(u))
        nw == Cardinality(ThisWeekReviews(u))
    IN  [all |-> n * Points.review + (n \div 3) * Points.multiple
                 + Cardinality(FirstLogs(u)) * Points.first,
         this_week |-> nw * Points.review + (nw \div 3) * Points.multiple
                 + Cardinality(ThisWeekFirstLogs(u)) * Points.first]

\* reset_rank: scores recomputed from the review rows and first-review logs
\* at the points get_review_points returns now
ResetScores(u) ==
    LET n == Cardinality(Reviews(u))
        nw == Cardinality(ThisWeekReviews(u))
    IN  [all |-> n * Points.review + (n \div 3) * Points.multiple
                 + Cardinality(FirstLogs(u)) * Points.first,
         this_week |-> nw * Points.review
                 + (n \div 3 - (n - nw) \div 3) * Points.multiple
                 + Cardinality(ThisWeekFirstLogs(u)) * Points.first]

\* the milestone decision of update_rank_point for a rank that moved
IsInsert(prev, new) ==
    LET band == IF new < 100 THEN 10 ELSE IF new < 1000 THEN 100
                ELSE IF new < 10000 THEN 1000 ELSE 10000
    IN  IF 1 <= new /\ new < 10 THEN new \in {5, 3, 2, 1}
        ELSE prev \div band # new \div band

\* update_rank_point: the points a review earns in one period
RankPoint(isMultiple, isFirst) ==
    Points.review + (IF isMultiple THEN Points.multiple ELSE 0)
                  + (IF isFirst THEN Points.first ELSE 0)

\* get_rewards: the base reward, and one combined bonus entry if any bonus
GetRewards(isMultiple, isFirst) ==
    LET bonus == (IF isMultiple THEN Points.multiple ELSE 0)
                 + (IF isFirst THEN Points.first ELSE 0)
    IN  IF bonus > 0 THEN <<Points.review, bonus>> ELSE <<Points.review>>

\* update_rank_point: is a result returned for the move prev -> new?
Milestone(prev, new) ==
    prev = None \/ (prev.rank # new.rank /\ IsInsert(prev.rank, new.rank))

-----------------------------------------------------------------------------
(* Requests.                                                               *)

Idle(w) == pc[w] = "idle"
Done(w) == pc' = [pc EXCEPT ![w] = "idle"]
Goto(w, l) == pc' = [pc EXCEPT ![w] = l]
InFlight(u) == \E w \in Workers : ~Idle(w) /\ req[w].user = u

\* the locals of a handler, as they are before it runs
LocInit == [isFirst |-> FALSE, f |-> None, score |-> 0, cnt |-> 0, cntW |-> 0,
            at |-> 0, holder |-> None, mult |-> FALSE,
            rankAll |-> None, credit |-> 0, bonus |-> 0]

\* a request arrives: create, destroy or check_updated_rank_range
Receive(w) ==
    /\ Idle(w) /\ nreq < MaxRequests
    /\ \E kind \in {"create", "destroy", "check"}, u \in Users, p \in Products :
          /\ req' = [req EXCEPT ![w] = [kind |-> kind, user |-> u, product |-> p]]
          /\ Goto(w, IF kind = "check" THEN "k_get" ELSE "reset_rem")
    /\ loc' = [loc EXCEPT ![w] = LocInit]
    /\ nreq' = nreq + 1
    /\ UNCHANGED <<created, firstLog, lb, flag, clock, weekStart, promo, imported, clean,
                   sets, notices>>

\* reset_rank, first half: zrem the user from both periods
ResetRem(w) ==
    LET u == req[w].user IN
    /\ pc[w] = "reset_rem"
    /\ lb' = Zrem(Zrem(lb, "all", u), "this_week", u)
    /\ Goto(w, "reset_add")
    /\ UNCHANGED <<created, firstLog, flag, clock, weekStart, promo, imported, req, loc, nreq,
                   clean, sets, notices>>

\* reset_rank, second half: recompute from history and zincrby; with no
\* review it returns early; otherwise the unresolved week helper raises
ResetAdd(w) ==
    LET u == req[w].user
        s == ResetScores(u)
        next == IF req[w].kind = "create" THEN "c_txn" ELSE "d_get"
    IN
    /\ pc[w] = "reset_add"
    /\ \/ /\ Reviews(u) = {}
          /\ Goto(w, next)
          /\ UNCHANGED lb
       \/ /\ Reviews(u) # {} /\ ~imported
          /\ Done(w)
          /\ UNCHANGED lb
       \/ /\ Reviews(u) # {} /\ imported
          /\ lb' = LET l1 == IF s.all > 0 THEN Zincrby(lb, "all", u, s.all) ELSE lb
                   IN  IF s.this_week > 0 THEN Zincrby(l1, "this_week", u, s.this_week)
                       ELSE l1
          /\ Goto(w, next)
    /\ clean' = [clean EXCEPT ![u] = TRUE]
    /\ UNCHANGED <<created, firstLog, flag, clock, weekStart, promo, imported, req, loc, nreq,
                   sets, notices>>

\* create: the duplicate check and the insert transaction; is_first is read
\* after review.save(), so the new row itself makes it false
CreateTxn(w) ==
    LET u == req[w].user
        p == req[w].product
    IN
    /\ pc[w] = "c_txn"
    /\ \/ /\ created[u][p] # 0
          /\ Done(w)
          /\ UNCHANGED <<created, clock, loc>>
       \/ /\ created[u][p] = 0
          /\ created' = [created EXCEPT ![u][p] = clock + 1]
          /\ clock' = clock + 1
          /\ loc' = [loc EXCEPT ![w].isFirst = ~\E a \in Users : created'[a][p] # 0]
          /\ Goto(w, "c_flag")
    /\ UNCHANGED <<firstLog, lb, flag, weekStart, promo, imported, req, nreq, clean, sets, notices>>

\* create, after the transaction: the first-review log insert (an
\* IntegrityError downgrades is_first) and set_review_is_written
CreateFlag(w) ==
    LET u == req[w].user
        p == req[w].product
        won == loc[w].isFirst /\ firstLog[p] = None
    IN
    /\ pc[w] = "c_flag"
    /\ firstLog' = IF won THEN [firstLog EXCEPT ![p] = [user |-> u, at |-> clock]]
                   ELSE firstLog
    /\ flag' = [flag EXCEPT ![u] = won]
    /\ sets' = [sets EXCEPT ![u] = @ + 1]
    /\ Done(w)
    /\ UNCHANGED <<created, lb, clock, weekStart, promo, imported, req, loc, nreq, clean, notices>>

\* mutation: the log of a holder with no successor is not deleted
NewFirstLogKept(p, isFirst, holder) ==
    IF ~isFirst \/ holder = None THEN firstLog[p]
    ELSE [user |-> holder, at |-> created[holder][p]]

\* mutation: the len(new_first_reviews) > 1 guard dropped
NewFirstLogUnguarded(p, isFirst, holder) ==
    IF ~isFirst THEN firstLog[p]
    ELSE [user |-> holder, at |-> IF holder = None THEN 0 ELSE created[holder][p]]

\* destroy: the deleter's first-review log is deleted and, when a second
\* oldest review remains, a new log names its author
NewFirstLog(p, isFirst, holder) ==
    IF ~isFirst THEN firstLog[p]
    ELSE IF holder = None THEN None
    ELSE [user |-> holder, at |-> created[holder][p]]

\* destroy: get_object_or_404 fetches the review before the transaction
\* opens (a 404 if the row is gone)
DestroyGet(w) ==
    LET u == req[w].user
        p == req[w].product
    IN
    /\ pc[w] = "d_get"
    /\ \/ /\ created[u][p] = 0
          /\ Done(w)
          /\ UNCHANGED loc
       \/ /\ created[u][p] # 0
          /\ loc' = [loc EXCEPT ![w].at = created[u][p]]
          /\ Goto(w, "d_txn")
    /\ UNCHANGED <<created, firstLog, lb, flag, clock, weekStart, promo, imported, req, nreq, clean,
                   sets, notices>>

\* destroy: the delete transaction.  review.delete() of a row deleted in the
\* meantime deletes nothing and raises nothing.  The counts are taken after
\* the row is gone, and so is the query for the new first review: its [1]
\* skips the oldest remaining review.  The points are read here, once, for
\* both the reversal and the new holder's bonus.
DestroyTxn(w) ==
    LET u == req[w].user
        p == req[w].product
        isFirst == firstLog[p] # None /\ firstLog[p].user = u
        rest == [created EXCEPT ![u][p] = 0]
        cnt == Cardinality(Reviews(u) \ {p})
        cntW == Cardinality(ThisWeekReviews(u) \ {p})
        second == OldestAuthors(rest, p)[2]
        holder == IF isFirst /\ second # {} THEN CHOOSE v \in second : TRUE ELSE None
    IN
    /\ pc[w] = "d_txn"
    /\ created' = rest
    /\ firstLog' = [firstLog EXCEPT ![p] = NewFirstLog(p, isFirst, holder)]
    /\ loc' = [loc EXCEPT ![w] = [@ EXCEPT !.isFirst = isFirst, !.cnt = cnt,
                 !.cntW = cntW, !.score = RankPoint(cnt % 3 = 0, isFirst),
                 !.holder = holder, !.bonus = Points.first]]
    /\ clean' = [v \in Users |-> clean[v] /\ v # u /\ v # holder]
    /\ Goto(w, "d_redis")
    /\ UNCHANGED <<lb, flag, clock, weekStart, promo, imported, req, nreq, sets, notices>>

\* destroy, after the commit: the leaderboard reversal and the credit of the
\* first-review bonus to the new holder.  The this-week test of that credit
\* compares the '%Y%m%d%H%M%S' _created_at with an ISO string: true for a
\* review of this week, and for an older one true unless it is from an
\* earlier year than the boundary.
DestroyRedis(w) ==
    LET u == req[w].user
        l == loc[w]
        wasWeek == l.at > weekStart
        l1 == IF l.cnt = 1 THEN Zrem(lb, "all", u) ELSE Zincrby(lb, "all", u, -l.score)
        l2 == IF ~wasWeek THEN l1
              ELSE IF l.cntW = 1 THEN Zrem(l1, "this_week", u)
              ELSE Zincrby(l1, "this_week", u, -l.score)
        l3 == IF l.holder = None THEN l2 ELSE Zincrby(l2, "all", l.holder, l.bonus)
    IN
    /\ pc[w] = "d_redis"
    /\ \E sameYear \in IF wasWeek THEN {TRUE} ELSE BOOLEAN :
          lb' = IF l.holder # None /\ sameYear
                THEN Zincrby(l3, "this_week", l.holder, l.bonus) ELSE l3
    /\ Done(w)
    /\ UNCHANGED <<created, firstLog, flag, clock, weekStart, promo, imported, req, loc, nreq,
                   clean, sets, notices>>

\* destroy, after the commit: a Redis error (or the process dying) in the
\* first period_zrem/period_zincrby leaves the committed delete without its
\* leaderboard reversal; the request ends with a 500.
DestroyRedisFail(w) ==
    /\ pc[w] = "d_redis"
    /\ Done(w)
    /\ UNCHANGED <<created, firstLog, lb, flag, clock, weekStart, promo, imported, req, loc, nreq,
                   clean, sets, notices>>

\* check_updated_rank_range: get_review_is_written reads the flag ...
CheckGet(w) ==
    /\ pc[w] = "k_get"
    /\ loc' = [loc EXCEPT ![w].f = flag[req[w].user]]
    /\ Goto(w, "k_clear")
    /\ UNCHANGED <<created, firstLog, lb, flag, clock, weekStart, promo, imported, req, nreq,
                   clean, sets, notices>>

\* mutation: the flag is read but never overwritten
ConsumedFlagKept(u) == flag

\* get_review_is_written: the hset of '' that consumes the flag
ConsumedFlag(u) == [flag EXCEPT ![u] = None]

\* ... and then overwrites it with '' in a second redis call
CheckClear(w) ==
    LET u == req[w].user IN
    /\ pc[w] = "k_clear"
    /\ flag' = ConsumedFlag(u)
    /\ IF loc[w].f = None THEN Done(w) ELSE Goto(w, "k_all")
    /\ UNCHANGED <<created, firstLog, lb, clock, weekStart, promo, imported, req, loc, nreq,
                   clean, sets, notices>>

\* update_rank_point('all'): is_multiple_all from the current review count;
\* the rank is read before and after the increment, the points in between
CheckAll(w) ==
    LET u == req[w].user
        mult == Cardinality(Reviews(u)) % 3 = 0
        z == lb["all"]
        z1 == Zincrby(lb, "all", u, RankPoint(mult, loc[w].f))["all"]
    IN
    /\ pc[w] = "k_all"
    /\ lb' = [lb EXCEPT !["all"] = z1]
    /\ loc' = [loc EXCEPT ![w].mult = mult, ![w].credit = RankPoint(mult, loc[w].f),
                 ![w].rankAll =
                 IF Milestone(GetUserRank(z, u), GetUserRank(z1, u))
                 THEN GetUserRank(z1, u).rank ELSE None]
    /\ Goto(w, "k_week")
    /\ UNCHANGED <<created, firstLog, flag, clock, weekStart, promo, imported, req, nreq, clean,
                   sets, notices>>

\* update_rank_point('this_week') with the same is_multiple_all, reading the
\* points again; then get_rewards, which reads them a third time, builds the
\* rewards of the response.  The response keeps the better of the two
\* results, if any.
CheckWeek(w) ==
    LET u == req[w].user
        z == lb["this_week"]
        z1 == Zincrby(lb, "this_week", u, RankPoint(loc[w].mult, loc[w].f))["this_week"]
        week == IF Milestone(GetUserRank(z, u), GetUserRank(z1, u))
                THEN GetUserRank(z1, u).rank ELSE None
    IN
    /\ pc[w] = "k_week"
    /\ lb' = [lb EXCEPT !["this_week"] = z1]
    /\ notices' = IF loc[w].rankAll = None /\ week = None THEN notices
                  ELSE [notices EXCEPT ![u] = @ + 1]
    /\ Done(w)
    /\ UNCHANGED <<created, firstLog, flag, clock, weekStart, promo, imported, req, loc, nreq, clean,
                   sets>>

\* the external weekly batch: this_week restarts and the boundary moves
\* (the last_week copy it keeps is read by no modelled handler)
WeekRollover ==
    /\ weekStart < clock
    /\ weekStart' = clock
    /\ lb' = [lb EXCEPT !["this_week"] = [u \in Users |-> None]]
    /\ clean' = [u \in Users |-> clean[u] /\ ~InFlight(u) /\ flag[u] = None]
    /\ UNCHANGED <<created, firstLog, flag, clock, promo, imported, pc, req, loc, nreq, sets, notices>>

\* time passes over the Point rows' event window: utc_now() enters it and
\* later leaves it (the rows share one window here; event_point 0 marks a
\* row without an override)
PromoTick ==
    /\ promo # "after"
    /\ promo' = IF promo = "before" THEN "open" ELSE "after"
    /\ UNCHANGED <<created, firstLog, lb, flag, clock, weekStart, imported, pc, req, loc, nreq,
                   clean, sets, notices>>

-----------------------------------------------------------------------------

SeedAt(u, p) == IF <<u, p>> \in DOMAIN SeedReviews THEN SeedReviews[<<u, p>>] ELSE 0

Init ==
    /\ created = [u \in Users |-> [p \in Products |-> SeedAt(u, p)]]
    /\ clock = Max({SeedAt(u, p) : u \in Users, p \in Products})
    /\ weekStart = clock
    /\ promo = "before"
    /\ imported \in WeekHelperBuilds
    /\ firstLog = [p \in Products |->
                     IF OldestAuthors(created, p)[1] = {} THEN None
                     ELSE LET a == CHOOSE a \in OldestAuthors(created, p)[1] : TRUE
                          IN  [user |-> a, at |-> created[a][p]]]
    /\ lb = [per \in Periods |-> [u \in Users |->
                IF ResetScores(u)[per] > 0 THEN ResetScores(u)[per] ELSE None]]
    /\ flag = [u \in Users |-> None]
    /\ pc = [w \in Workers |-> "idle"]
    /\ req = [w \in Workers |-> [kind |-> None, user |-> None, product |-> None]]
    /\ loc = [w \in Workers |-> LocInit]
    /\ nreq = 0
    /\ clean = [u \in Users |-> TRUE]
    /\ sets = [u \in Users |-> 0]
    /\ notices = [u \in Users |-> 0]

\* every request served and nothing left to roll over
Finished == nreq = MaxRequests /\ \A w \in Workers : Idle(w) /\ weekStart = clock

Next ==
    \/ \E w \in Workers :
          \/ Receive(w) \/ ResetRem(w) \/ ResetAdd(w)
          \/ CreateTxn(w) \/ CreateFlag(w)
          \/ DestroyGet(w) \/ DestroyTxn(w) \/ DestroyRedis(w) \/ DestroyRedisFail(w)
          \/ CheckGet(w) \/ CheckClear(w) \/ CheckAll(w) \/ CheckWeek(w)
    \/ WeekRollover \/ PromoTick
    \/ Finished /\ UNCHANGED vars

Spec == Init /\ [][Next]_vars

-----------------------------------------------------------------------------
(* Properties.                                                             *)

PCs == {"idle", "reset_rem", "reset_add", "c_txn", "c_flag", "d_get", "d_txn", "d_redis",
        "k_get", "k_clear", "k_all", "k_week"}

TypeOK ==
    /\ created \in [Users -> [Products -> 0..clock]]
    /\ firstLog \in [Products -> {None} \cup [user : Users, at : 1..clock]]
    /\ lb \in [Periods -> [Users -> Int \cup {None}]]
    /\ flag \in [Users -> BOOLEAN \cup {None}]
    /\ weekStart \in 0..clock
    /\ promo \in {"before", "open", "after"}
    /\ imported \in BOOLEAN
    /\ pc \in [Workers -> PCs]
    /\ nreq \in 0..MaxRequests

Score(per, u) == IF lb[per][u] = None THEN 0 ELSE lb[per][u]

\* the points each review earned when check_updated_rank_range scored it:
\* the n-th review of a user earns the multiple bonus when 3 divides n
Ordinal(u, p) == Quantify(Reviews(u), LAMBDA q : created[u][q] <= created[u][p])
Earned(u, p) == RankPoint(Ordinal(u, p) % 3 = 0, FALSE)
HistoryScore(per, u) ==
    IF per = "all"
    THEN MapThenSumSet(LAMBDA p : Earned(u, p), Reviews(u))
           + FirstBonus * Cardinality(FirstLogs(u))
    ELSE MapThenSumSet(LAMBDA p : Earned(u, p), ThisWeekReviews(u))
           + FirstBonus * Cardinality(ThisWeekFirstLogs(u))

\* The incremental scoring of check_updated_rank_range and the recomputation
\* of reset_rank agree: a user with no request in flight, no pending flag,
\* and not disturbed by a delete or a mid-request week rollover since the
\* last reset, has in both periods exactly the points their reviews earned.
ScoreConsistent ==
    \A u \in Users :
        (~InFlight(u) /\ flag[u] = None /\ clean[u]) =>
            \A per \in Periods : Score(per, u) = HistoryScore(per, u)

\* reset_rank rebuilds a user's entries to exactly the points their reviews
\* and first-review logs earned, in both periods, even when it runs while
\* other requests score the same user.
ResetMatchesHistory ==
    [][\A w \in Workers :
         (pc[w] = "reset_add" /\ pc'[w] \in {"c_txn", "d_get"}) =>
            \A per \in Periods :
               (Score(per, req[w].user))' = HistoryScore(per, req[w].user)]_vars

\* Deleting a review takes back exactly what it earned and credits the new
\* first-review holder: after destroy's leaderboard writes, the deleter and
\* the new holder have the points their remaining reviews and logs earned.
DeleteReversesScore ==
    [][\A w \in Workers :
         (pc[w] = "d_redis" /\ pc'[w] = "idle") =>
            \A per \in Periods, v \in {req[w].user, loc[w].holder} \ {None} :
               (Score(per, v))' = HistoryScore(per, v)]_vars

\* One review_is_written flag yields at most one milestone response, even if
\* check_updated_rank_range is called again before the first call returns.
AtMostOneMilestonePerFlag ==
    \A u \in Users : notices[u] <= sets[u]

\* A Review_first_log row always names a user whose review of that product
\* still exists, through deletes of the holder's and of other reviews.
FirstLogHeldByAuthor ==
    \A p \in Products : firstLog[p] # None => created[firstLog[p].user][p] # 0

\* The first-review log names the author of the oldest remaining review of
\* the product (the spec's reassignment to the next-oldest review).
FirstLogIsOldest ==
    \A p \in Products : firstLog[p] # None =>
        firstLog[p].user \in OldestAuthors(created, p)[1]

\* Every product that has a review has a first-review log.
FirstReviewLogged ==
    \A p \in Products : Authors(p) # {} => firstLog[p] # None

\* A user with a review stays on the all-time leaderboard outside their own
\* requests (create and destroy first run reset_rank).
ReviewerRanked ==
    \A u \in Users : (Reviews(u) # {} /\ ~InFlight(u)) => lb["all"][u] # None
\* The rewards a check_updated_rank_range response shows add up to the
\* points it credited to the all-time board: update_rank_point('all'),
\* update_rank_point('this_week') and get_rewards each call
\* get_review_points, so a review scored once is scored at one set of points.
RewardTotal(r) == r[1] + (IF Len(r) = 2 THEN r[2] ELSE 0)
RewardsMatchCredit ==
    [][\A w \in Workers :
         (pc[w] = "k_week" /\ pc'[w] = "idle") =>
            RewardTotal(GetRewards(loc[w].mult, loc[w].f)) = loc[w].credit]_vars
====

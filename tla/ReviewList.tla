------------------------------ MODULE ReviewList ------------------------------
(***************************************************************************)
(* The review list of services/reviews.py (ReviewService.get_list with the *)
(* "latest" sort, which is the default) read page after page by a client,  *)
(* while create requests insert reviews and destroy requests delete them.  *)
(*                                                                         *)
(* get_list orders the rows by -_created_at.  The first page is an offset  *)
(* page (cursor = 1, offset 0); every later page is the keyset filter      *)
(* id < cursor, and the cursor handed back is results[-2].id, the id of    *)
(* the last row shown.  _created_at is the local time in seconds, taken    *)
(* in create before the EventPrizeMapping query and review.save() assigns *)
(* the auto-increment id.  A review row is reduced to its id and stamp.    *)
(***************************************************************************)
EXTENDS Integers, FiniteSets, Sequences, SequencesExt

CONSTANTS
    Writers,      \* concurrent create requests
    Limit,        \* the page size (the limit parameter)
    MaxReviews,   \* bound on the ids handed out
    MaxTime,      \* bound on the seconds the clock runs through
    TieOrder,     \* how the database orders rows of equal _created_at
    None

ASSUME /\ Limit \in Nat \ {0}
       /\ MaxReviews \in Nat /\ MaxTime \in Nat
       \* "id": an index on _created_at read backwards, ties by id descending;
       \* "any": a filesort, ties in any order, which may differ per query
       /\ TieOrder \in SUBSET {"id", "any"} /\ TieOrder # {}

Ids == 1..MaxReviews

VARIABLES
    live,      \* ids of the rows with is_display = True
    at,        \* id -> _created_at of every row ever inserted
    nextId,    \* the next auto-increment id
    clock,     \* local_now(), in seconds
    tie,       \* the tie order of this database
    wpc,       \* per create request: "idle" or "stamped"
    wat,       \* per create request: the `now` it took
    cpc,       \* the client: "idle", "walking" or "done"
    cursor,    \* the cursor the client sends, None on the first page
    shown,     \* the ids the walk has been shown, in order
    start      \* the ids on display when the walk began

vars == <<live, at, nextId, clock, tie, wpc, wat, cpc, cursor, shown, start>>

TypeOK ==
    /\ live \subseteq DOMAIN at /\ DOMAIN at \subseteq Ids
    /\ \A i \in DOMAIN at : at[i] \in 0..MaxTime
    /\ nextId \in 1..MaxReviews + 1 /\ clock \in 0..MaxTime
    /\ tie \in TieOrder
    /\ wpc \in [Writers -> {"idle", "stamped"}] /\ wat \in [Writers -> 0..MaxTime]
    /\ cpc \in {"idle", "walking", "done"}
    /\ cursor \in Ids \cup {None}
    /\ shown \in Seq(Ids) /\ start \subseteq Ids

Init ==
    /\ live = {} /\ at = <<>> /\ nextId = 1 /\ clock = 0
    /\ tie \in TieOrder
    /\ wpc = [w \in Writers |-> "idle"] /\ wat = [w \in Writers |-> 0]
    /\ cpc = "idle" /\ cursor = None /\ shown = <<>> /\ start = {}

(* The clock moves on a second. *)
Tick ==
    /\ clock < MaxTime
    /\ clock' = clock + 1
    /\ UNCHANGED <<live, at, nextId, tie, wpc, wat, cpc, cursor, shown, start>>

(* create: now = local_now().strftime(...) and the Review object built     *)
(* with _created_at = now.                                                 *)
Stamp(w) ==
    /\ wpc[w] = "idle" /\ nextId <= MaxReviews
    /\ wpc' = [wpc EXCEPT ![w] = "stamped"]
    /\ wat' = [wat EXCEPT ![w] = clock]
    /\ UNCHANGED <<live, at, nextId, clock, tie, cpc, cursor, shown, start>>

(* create: review.save() takes the next id; the row is on display from the *)
(* commit of the request's transaction, which the model joins to it.      *)
Insert(w) ==
    /\ wpc[w] = "stamped" /\ nextId <= MaxReviews
    /\ at' = at @@ (nextId :> wat[w])
    /\ live' = live \cup {nextId}
    /\ nextId' = nextId + 1
    /\ wpc' = [wpc EXCEPT ![w] = "idle"]
    /\ UNCHANGED <<clock, tie, wat, cpc, cursor, shown, start>>

(* destroy: review.delete() of one of the author's reviews on display. *)
Destroy(i) ==
    /\ i \in live
    /\ live' = live \ {i}
    /\ UNCHANGED <<at, nextId, clock, tie, wpc, wat, cpc, cursor, shown, start>>

(* The order the query returns the candidate rows in: -_created_at, ties  *)
(* as the database breaks them.                                            *)
Listed(s) ==
    \A k \in 1..Len(s) - 1 :
        \/ at[s[k]] > at[s[k + 1]]
        \/ at[s[k]] = at[s[k + 1]] /\ (tie = "any" \/ s[k] > s[k + 1])

(* get_list: the offset page when cursor is None, the id < cursor page     *)
(* otherwise, limit + 1 rows; with limit + 1 rows the last is dropped and  *)
(* next_offset = results[-2].id, else next_offset = None.                  *)
Fetch ==
    /\ cpc \in {"idle", "walking"}
    /\ LET cand == IF cursor = None THEN live ELSE {i \in live : i < cursor}
       IN \E s \in {q \in SetToSeqs(cand) : Listed(q)} :
            LET results == SubSeq(s, 1, IF Len(s) > Limit + 1 THEN Limit + 1 ELSE Len(s))
                full == Len(results) = Limit + 1
                page == IF full THEN SubSeq(results, 1, Limit) ELSE results
            IN  /\ shown' = shown \o page
                /\ cursor' = IF full THEN results[Limit] ELSE None
                /\ cpc' = IF full THEN "walking" ELSE "done"
                /\ start' = IF cpc = "idle" THEN live ELSE start
    /\ UNCHANGED <<live, at, nextId, clock, tie, wpc, wat>>

(* The client starts over from the first page. *)
Restart ==
    /\ cpc = "done"
    /\ cpc' = "idle" /\ shown' = <<>> /\ start' = {}
    /\ UNCHANGED <<live, at, nextId, clock, tie, wpc, wat, cursor>>

Next ==
    \/ Tick \/ Fetch \/ Restart
    \/ \E w \in Writers : Stamp(w) \/ Insert(w)
    \/ \E i \in Ids : Destroy(i)

Spec == Init /\ [][Next]_vars

(* A client that follows next_offset to the end of the "latest" list is    *)
(* shown every review that was on display when it began and still is, and *)
(* no review twice: the id < cursor filter must cut the -_created_at order *)
(* exactly after the last row shown.                                       *)
WalkListsEachOnce ==
    cpc = "done" =>
        /\ \A k, m \in 1..Len(shown) : k # m => shown[k] # shown[m]
        /\ \A i \in start \cap live : \E k \in 1..Len(shown) : shown[k] = i
================================================================================

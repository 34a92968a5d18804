# TLA+ models of the review ranking subsystem, its leaderboard store, and the rows user requests write

These modules model the review-ranking part of this repository:
- how review create, delete and "check my rank" requests change the all-time and this-week leaderboards;
- the first-review ledger;
- the pending-reward flag;
- the leaderboard store adapter with its primary and copy tables (`RankStore`), shown to implement a one-table store (`LeaderboardStore`);
- the User, SocialAccount, Review-counter, like, report and message-box rows that account, review and message handlers load and `save()` (`UserAccounts`);
- the writing handlers of events, picks, the product page and questions, with their DynamoDB counters and the `update_product_info` celery task that review writes queue (`Catalog`);
- the "latest" review list read page after page while reviews are created and deleted (`ReviewList`).

TLC checks them. The rest of the repository is read-only catalog queries, serializers, and a standalone exchange watcher script. It is listed below with the reason it is not modelled.

## 1. Inventory

### Parts and how they interact

| Part | Code | State | Operations |
|---|---|---|---|
| Leaderboard store adapter | `src/cash_db/redis_utils.py` | sorted sets `rank_list_{all,this_week,last_week}`, each with a `_copy` mirror; user-info hashes `rank_user_*` | `period_zincrby`, `period_zrem` (write primary then copy); `period_zrevrank`, `period_zscore`, `period_zrangebyscore` (read through `get_data`/`get_mdata`: primary first, copy if the primary answers None or an empty list); `period_zcard` (primary only); `get_user_rank` |
| Pending reward flag | `redis_utils.py:41-64` | hash `review_is_written[user]` | `set_review_is_written` (hset); `get_review_is_written` (hget, then a separate hset of `''`) |
| Points policy | `services/reviews.py:798-818` | `Point` rows with an optional event override | `get_review_points` |
| Rank engine | `services/reviews.py:694-796` | none of its own | `update_rank_point`: rank read, zincrby, rank re-read, then the band policy. `get_rewards` formats the reward list |
| Score reset | `services/reviews.py:820-872` | none of its own | `reset_rank`: zrem both periods, then recompute from `Review` and `Review_first_log` rows and zincrby |
| First-review ledger | `backends/api/v2/reviews.py:380-396, 549-580` | `Review_first_log` rows, keyed by product | insert on create (an IntegrityError downgrades is_first); delete and reassign on destroy |
| Review list | `services/reviews.py:205-321` | none of its own: it reads `Review` rows | `get_list`: sort, offset or `id < cursor` page, `limit + 1` lookahead, `next_offset` |
| Review lifecycle | `backends/api/v2/reviews.py:249-623` | `Review` rows, user counters, tags, likes, search index | `create`, `update`, `destroy` |
| Check-rank endpoint | `backends/api/v2/reviews.py:826-887` | none of its own | `check_updated_rank_range` |
| Week rollover | not in `src/` (spec section 6) | the week boundary, `this_week` | an external batch copies `this_week` to `last_week` and clears it |
| Events | `backends/api/v2/events.py` | Event `hits`, EventComment and EventParticipants rows; three DynamoDB tables (list count, participant entries, event count) | `retrieve` (hits save), `join`, comment `create` |
| Picks | `backends/api/v2/picks.py`, `services/picks.py`, `services/pick_comments.py` | Pick `hits_count`, PickComment and PickLike rows; DynamoDB comment and recommend counts | `retrieve`, comment `create`/`destroy`, like `create`/`destroy` |
| Product page and task | `backends/api/v2/products.py`, `backends/ec/v2/products.py`, `tasks/products.py` | Product `read_count`, `review_count`; Wish rows; ProductGoods; the DynamoDB product | `retrieve` and ec `detail` (read_count save), `wish`, ec `pricing`; `update_product_info`, queued by review create, update and destroy |
| Questions and inquiries | `backends/api/v2/questions.py`, `common.py`, `inquiries.py` | Question, RequestedNewProduct, RequestedEditProduct, RequestedIngredient, Inquiry rows | `create` (and the same form in `common.py`), `new`, `edit`, `ingredient`; inquiry `create`, `destroy` |

**Data flow.**
- `create` first calls `reset_rank`. It then inserts the review in a transaction, logs a first review if it has one, and sets the flag.
- The client's later `check_updated_rank_range` consumes the flag. It then calls `update_rank_point` for `all` and for `this_week`.
- `destroy` first calls `reset_rank`. It then fetches the review, and its transaction deletes the review and reassigns the first-review log. After the commit it reverses the score in the leaderboards and credits the new first-review holder.

### Hard behaviours
- **Concurrency.** Requests are served by concurrent web workers, and nothing in the code serialises two requests of one user.
- **Non-atomic Redis sequences.** The following steps are separate Redis calls:
  - the flag's read and its clear;
  - `reset_rank`'s zrem and its zincrby;
  - `update_rank_point`'s read, increment and re-read;
  - the primary and copy writes.
- **Writes outside the transaction.** The leaderboard writes happen after the relational transaction, with no retry.
- **The week boundary.** The batch may move it between any two steps of a request.
- **Reading after a delete.** The code reads counts and "the next oldest review" after its own delete. It reads whether the review is the first before its insert is visible to others.

### Defects found while modelling
Defects 3, 5, 6, 8, 10, 11, 18 and 29 each have a violation run (section 7). Defects 1, 2, 4, 7, 12, 13, 20-26, 28 and 30 are sequential and a unit test reaches them; 7 and 13 are reproduced by `MCReviewRanking_double_count.cfg` and `MCUserAccounts_recheck.cfg`, defect 9 by `MCRankStore_partial.cfg` defect 27 by `MCReviewRanking_promo.cfg` and defect 30 by `MCUserAccounts_msgdelete.cfg`, all kept beside the runs. Defects 14-17 and 19 are reachable in the models but have no run of their own; the hazards in `PROJECT.json` say how TLC reaches them.
1. `kst_last_week_friday_18_00` is used in `services/reviews.py` (lines 690, 848, 852) and `backends/api/v2/reviews.py:600,614` but is never imported. `reset_rank` therefore raises NameError right after zremming the user, whenever the user has a review. Both `create` and `destroy` call `reset_rank` first, so for any reviewer, as shipped, both fail after removing the user from the leaderboards. The variable `imported`, fixed in each behaviour and drawn from the constant `WeekHelperBuilds`, selects the shipped build (FALSE) or the evidently intended one (TRUE). The `sequential` run checks both builds; the violation runs use TRUE.
2. `create` computes `is_first` after `review.save()` (line 378), so it is always false and `create` never writes a first-review log.
3. `destroy` reads `user_review_count` after the delete. `count % 3 == 0` therefore picks the wrong bonus, and `count == 1` zrems a user who still has one review.
4. `destroy` queries the new first review after the delete but takes index `[1]`, so it skips the oldest remaining review.
5. The flag's hget and hset are separate calls, so two concurrent checks both get a milestone.
6. A check's zincrby between `reset_rank`'s zrem and its recompute is counted twice.
7. A `create` that fails after `reset_rank` (conflict or validation) while a previous create's flag is pending causes that review to be scored twice (`ScoreConsistent`, violated in 7 steps by `MCReviewRanking_double_count.cfg`).
8. `get_user_rank` (`redis_utils.py:146`) reads zscore and zrangebyscore in separate calls. A zrem of the member between them makes `users` None, and `users[-1]` raises TypeError.
9. A request that dies between the primary and copy writes leaves the copy behind. After a later zrem, `get_data` serves the copy's old score for a removed member.
10. A concurrent zrem and zincrby of one member can reach the primary and the copy in opposite orders. The two tables then differ for good, with no failure at all.
11. Every account handler and the review handlers `save()` the whole User row from the object they loaded at the start. A secession committed in between is overwritten with `is_active = True` (the account comes back), and a password change or a review count is lost the same way.
12. `destroy` deletes the review's likes but leaves `like_count` and the like share of `score` until the next like recomputes them (sequential; not checked).
13. `MessageView.list` (`messages.py:116`) bulk-creates a MessageCheck for every visible message with no check in the last 14 days, even when an older check of that message exists. The user then has two checks of the message, and `check`'s `get_or_create(user, message)` raises MultipleObjectsReturned for good. It takes two list calls 14 days apart, no concurrency: `MCUserAccounts_recheck.cfg` reproduces it against `OneCheckPerMessage` in eight steps.
14. `like` and `reports` `review.save()` the Review object they loaded at the start (`reviews.py:721, 786`), and Django inserts a row whose pk no longer exists. A concurrent secession's `is_display = False`, another report's increment, or a destroy is overwritten (not among the runs; see the hazards).
15. `make_like_message` (`services/reviews.py:682`) saves the like message it loaded in `get_or_create` with every column. A destroy of that message committed in between is undone, and the message the user deleted is active again. (Delete-all and delete-read leave it active anyway, defect 30.)
16. `MessageView.check` (`messages.py:204-217`) saves the MessageCheck it loaded with `get_or_create`, with every column. A delete-all or delete-read committed in between has its `deleted_at` undone. TLC finds this in five steps with two workers against `DeletedCheckStaysDeleted` (not among the runs).
17. `AccountInactiveView.post` runs without a transaction. An error in the per-review search-index update, after the reviews are hidden and the social rows deleted, ends it with `FailedInactiveUser` before `user.save()`. The account stays active, without its social logins and with its reviews hidden, until the user retries.
18. Review `create`, `update` and `destroy` call `update_product_info.delay` inside `transaction.atomic` (`reviews.py:306, 446, 530`). The celery worker can run the task before the commit; it counts the reviews without the change and saves that `review_count`, and nothing recomputes it. The `product_count` run finds it in five steps.
19. `update_product_info` saves the whole Product row it loaded (`tasks/products.py:114`), so a page view's `read_count += 1` saved in between is lost; and a `retrieve` that loaded the product before the task saves back the old `review_count`. `ReadCountKept` is violated in 9 steps by `MCCatalog_readcount.cfg` (not among the runs).
20. With no displayed review left, every Sum in `update_product_info` is None and `tasks/products.py:86` raises TypeError: deleting a product's last review leaves its `review_count` at its old value.
21. `PickLikeView.destroy` narrows `self.queryset` to the user's like before deleting it, so `update_recommend_count` is given that user's remaining likes of the pick (none) minus 1: always -1 (`picks.py:436-449`).
22. `QuestionView.create` keeps the None that `save()` returns; outside DEBUG `question.id` raises AttributeError, and the bare except answers "failed" for a question that was stored.
23. `QuestionProductView.ingredient` saves the request row before storing its image; if the store fails the row stays without an image, and every retry is answered "already requested".
24. Event `join` and comment `create`, and pick comment and like `create`, count their rows after their own insert and add 1, so every DynamoDB count is one too high; pick comment `destroy` never updates the count.
25. `InquiryView` has neither an owner check nor an `is_del` filter on its queryset: any authenticated user can soft-delete any inquiry by id, and a deleted inquiry is still listed and can be deleted again.
26. `get_list_from_redis` never sets `next_offset` on the first page (`services/users.py:238-239`), while every later full page links the next cursor: a client that follows `paging.next` stops after the first page. A User missing for an id in the board (`continue` at line 221) would also shorten a middle page to `limit + 1` entries, so it would be taken for the last page.
27. `check_updated_rank_range` calls `get_review_points` three times: in `update_rank_point('all')`, in `update_rank_point('this_week')` and in `get_rewards`. When an event window opens or closes between the calls, the all-time board is credited at one set of points, and the this-week board and the rewards popup at the other. `MCReviewRanking_promo.cfg` (property `RewardsMatchCredit`) finds it in 12 states: create, check, then the window opens after the all-time increment. The same re-read lets a `destroy` inside the window take back event points for a review credited at base points. `reset_rank`, which every create and destroy runs first, revalues all of the user's reviews at the points of that moment.
28. `get_review_points` (`services/reviews.py:805-807`) ignores an `event_point` of 0, so a promotion cannot switch a bonus off. It also tests `start < now < end`, where the spec's window is `[start, end)`.
29. The "latest" review list (`ReviewService.get_list`, `services/reviews.py:289-309`) is ordered by `-_created_at` but continued with `id < cursor`, where the cursor is the id of the last row shown. `create` takes `_created_at` from `local_now()` in seconds (`backends/api/v2/reviews.py:286`) before `review.save()` takes the auto-increment id (298), after a query. Two concurrent creates can therefore give the later id the older stamp. A client that follows `next_offset` then never sees one of them. The `latest_walk` run finds it with 3 reviews and pages of 2. With one writer, reviews stamped in the same second do the same whenever the database returns ties in an order other than id descending (an unindexed sort); `MCReviewList_ties.cfg` reproduces that, and also a review shown twice.
30. Delete-all and delete-read (`messages.py:135-172`) first set `deleted_at` on the user's checks of the listed messages, then call `query_set.filter(user__isnull=False).update(is_active=False)`. The queryset is lazy, so the update runs `get_queryset` again, and its `exclude(messagecheck__in=<the user's deleted checks>)` now drops exactly the messages whose checks were just marked. Every message the user has listed (every one with a check) stays active; delete-read deactivates none. The box hides them through the deleted check, but a later like on the review makes `make_like_message` find the still-active row and delete the user's checks, and the deleted message comes back. `MCUserAccounts_msgdelete.cfg` violates `DeletedMessageStaysInactive` in five steps: list, then delete-all.

## 2. Modules

| Module | Models | MC module |
|---|---|---|
| `ReviewRanking` | review create, destroy and check-rank handlers over one sorted set per period, the flag, the first-review ledger and the review rows | `MCReviewRanking` |
| `RankStore` | `redis_utils.py` for one period: primary and `_copy` tables, writes, `get_data` fallback reads, `get_user_rank` as four commands | `MCRankStore` |
| `LeaderboardStore` | the abstract store of spec section 4.2: atomic increments and removals on one board, tie-aware rank | instantiated by `RankStore` |
| `Catalog` | events, picks, the app and ec product pages with the wish list, ec pricing and the `update_product_info` task, questions and inquiries | `MCCatalog` |
| `ReviewList` | the "latest" review list read page by page, with create and destroy writing rows | `MCReviewList` |
| `UserAccounts` | the rows account, review and message handlers load and `save()`: User, SocialAccount, Review (display, like_count, report_count), Reviewlike, ReportReview, MessageBox, MessageCheck | `MCUserAccounts` |

The modules do not share variables. `ReviewRanking` uses one table per period where `RankStore` refines it into two. `UserAccounts` models the relational rows of the same handlers whose leaderboard calls `ReviewRanking` models. `Catalog` models the review writes only as far as the product task sees them: a change in the number of displayed reviews and the queued task.

No property depends on fairness. Liveness would need the progress of a request that has begun (a gunicorn worker runs a handler to its end or raises) or of the celery worker taking queued tasks. Under that fairness and the models' bounds on requests, the two candidates (the copy table catching up once writes stop, and the task queue draining) follow from the fairness alone, whatever the handlers do, so they are not checked. Every property is a safety property: an invariant, or an action property such as the refinement.

## 3. Module `ReviewRanking`

### Constants
- `Users`, `Products`, `Workers`: sets of ids. Users and products are integers because the code's tie order, zrangebyscore by member, is numeric for one-digit ids.
- `ReviewPoint`, `MultipleBonus`, `FirstBonus`: the base point values of the three Point rows.
- `EventPoints`: each row's `event_point`, with 0 for a row without one (the code's truthiness test treats 0 and None alike). The MC module sets 20 and 5 for the review point and the multiple bonus, and none for the first bonus.
- `SeedReviews`: the review rows that exist at the start.
- `WeekHelperBuilds`: the builds checked, TRUE where the week helper resolves (see defect 1).
- `MaxRequests`: the bound on requests.
- `None`: a model value.

### State

| Variable | Code |
|---|---|
| `created[u][p]` | the `_created_at` instant of u's review of p, or 0 if there is none |
| `firstLog[p]` | the `Review_first_log` row: `[user, at]` or None |
| `lb[per][u]` | the sorted set `rank_list_<per>`, with None for "not a member" |
| `flag[u]` | `review_is_written[u]`: the stored `is_first`, or None for `''`/absent |
| `clock`, `weekStart` | the time of the last write, and the start of the current week |
| `promo` | where `utc_now()` stands against the Point rows' event window: "before", "open", "after" |
| `pc[w]`, `req[w]`, `loc[w]` | a worker's position in its handler, its request, and its local variables |
| `nreq` | requests received so far, bounded by `MaxRequests` |
| `clean`, `sets`, `notices` | history variables used only by properties |

### Actions

| Action | Step of the code |
|---|---|
| `Receive` | a request arrives (the parameter parsing of create, destroy or check) |
| `ResetRem` | `reset_rank` 825-836: zrem both periods |
| `ResetAdd` | `reset_rank` 838-872: an early return with no reviews; the NameError; or the zincrby of the recomputed scores |
| `CreateTxn` | create 267-378: the conflict check, the insert, and `is_first` read after the save |
| `CreateFlag` | create 379-405: the log insert with the IntegrityError downgrade, then `set_review_is_written` |
| `DestroyGet` | destroy 505: `get_object_or_404` before the transaction |
| `DestroyTxn` | destroy 509-580: the delete, the post-delete counts, the first-log delete and reassignment |
| `DestroyRedis` | destroy 582-619: zrem or zincrby `-score` per period, and the holder's first bonus |
| `DestroyRedisFail` | destroy 580-590: a Redis error, or the worker dying, after the commit and before the reversal; the request ends there |
| `CheckGet`, `CheckClear` | `get_review_is_written`: the hget, then the hset of `''` |
| `CheckAll`, `CheckWeek` | `update_rank_point('all')` and `('this_week')`, each with its rank before and after and the band policy |
| `WeekRollover` | the external batch (modelled from the spec) |
| `PromoTick` | time passing into and out of the event window (`get_review_points` 806-807 compares it with `utc_now()`) |

`Points` is `get_review_points` (798-819) evaluated in the current state; `RankPoint`, `ResetScores` and `GetRewards` (`get_rewards`, 772-797) read it where the code calls it. `DestroyTxn` reads it once and keeps the first bonus in `loc` for the new holder's credit, as destroy keeps `review_points`. `CheckAll` and `CheckWeek` read it separately. The three rows share one window in the model, which is the case where a window change is most visible.

Bounds (`MCReviewRanking.cfg`): users and products {1, 2, 3}, one worker, three seeded reviews (user 1 on products 1 and 2, user 2 on product 1), both builds, and 4 requests with the window opening and closing at any point between them. With 4 requests a user reaches a third review (the multiple bonus), a delete of a first review with a successor, and a check on either side of the window. A fifth request multiplied the states by about twelve once the window was added (46 million, 14 minutes), so the run serves four. `MCView` leaves out the request and locals of an idle worker, which the next `Receive` overwrites. The run reaches about 3.8 million distinct states in about a minute. The violation runs use 3 or 4 requests.

## 4. Modules `RankStore` and `LeaderboardStore`

`RankStore` has `prim` and `copy` (the two sorted sets of one period), writer and reader positions, and history variables `writes` and `failed`.
- `WritePrimary`, `WriteCopy`: the two iterations of the loop over `get_redis_tables` in `period_zincrby`/`period_zrem` (123-131).
- `WriteFail`: the request dies between them. Nothing retries the copy.
- `ReadBegin`, `Zscore`, `Zrange`, `ZrevrankCall`, `Zcard`: `get_user_rank` (141-159). Each is one Redis command. The first three go through `get_data`/`get_mdata` (66-86), which ask the copy when the primary answers None. `Zcard` asks the primary only.

**Refinement.** `View` (the board `get_data` serves: primary, else copy) is the refinement mapping. `LB == INSTANCE LeaderboardStore WITH Absent <- None, board <- View`.
- `ViewRefinesUntilFailure` (checked in `store`) says every step that leaves no failure behind is an `Incr`, a `Remove` or a stutter of `View`.
- `ViewRefines` (the full `LB!Spec`) is violated: after a write fails, a later zrem exposes the stale copy. `MCRankStore_partial.cfg` reproduces this. It is kept beside the runs but has no run of its own (defect 9).
- `SerialReadCorrect` compares a `get_user_rank` result with `LB!RankOf`, the abstract rank, for reads that no write overlapped.

**The ranking list.** `UsersPage(limit, cursor)` is `UserService.get_list_from_redis` (`services/users.py:170-250`) as an operator over the tables. It calls `RevRange` (`period_zrevrange` through `get_mdata`, with the copy asked when the primary's window is empty) and `Zrevrange` (the Redis command). From the second page on, the window starts one entry early and a full window has `limit + 2` entries. The slices drop the extra entries again. `PagesListBoard` checks the page arithmetic against `RankOrder`, the whole board in rank order: in every quiet, unfailed state of the `store` run, cursors 1, 2, ... up to the first empty page list each member once, in order, for `PageSizes = {1, 2}`. Every id is an existing User: no handler under `src/` deletes a User row. So the hash and `User.objects.get` fallbacks keep the ids, and the `get_user_rank` decoration is not part of the list's order.

Bounds: 3 members (two tied at 10, one at 20), increments of 10, 4 writes, 2 reads, one writer and one reader. That is enough for a tie, a removal of a tied member, a member created by zincrby, and a failure followed by a zrem. `store_diverge` needs two writers.

## 5. Module `UserAccounts`

Every handler loads model objects, changes attributes and calls `save()`, which writes every column (and inserts the row again when its pk has been deleted). The module keeps each observable read or write as one step, with the loaded objects in `obj[w]` (a User) and `robj[w]` (a Review, a MessageBox, a MessageCheck or a set of message ids).

| Variable | Rows |
|---|---|
| `row[u]` | User: `active`, password hash, `review_count`, `like_count` |
| `social` | SocialAccount (user, uid) |
| `reviews` | Review: id, user, product, `is_display`, `like_count`, `report_count` |
| `likes`, `reports` | Reviewlike (writer, product, register), ReportReview (review, user) |
| `msgs`, `checks` | MessageBox (id, user, reference, `is_active`, `updated_at`), MessageCheck (user, message, `checked_at`, `read_at` set, `deleted_at` set) |
| `clock` | time in ticks; `Window` ticks stand for 14 days |
| `lastPw`, `seceded`, `hidden` | history for the properties |

Actions, by handler (each named after the code step it models; `PROJECT.json` "map" gives the lines):
- **Sign-in, auto sign-in, push token, profile (`users.py` profile, me and update PUTs):** `SignInAuth`, `SignInSocial`, `SignInUser`, `AutoSignInLoad`, `PushTokenLoad`, `UserProfileLoad`, `UserMeLoad`, `UserUpdateLoad`, then `RowSave`.
- **Passwords:** `ChangePasswordLoad`, `TempPasswordLoad`, then `PasswordSave`.
- **Social accounts:** `ConnectLoad`, `ConnectInsert`, `Disconnect`.
- **Secession:** `InactiveLoad`, `InactiveClear` (social rows deleted, reviews hidden by `update()`), `InactiveSave`. `InactiveAbort` is the search-index update raising between the two. The view runs in no transaction, so the earlier writes stay.
- **Sign-up:** `SignUp`, including the welcome message.
- **Review create:** `CreateLoad`, `CreateCheck` (the exists() check outside the transaction), `CreateTxn`.
- **Review update and destroy:** `ReviewUpdateLoad`, `ReviewUpdateSave`; `DestroyGet`, `DestroyTxn`.
- **Like:** `LikeLoad`, `LikeTxn`, then `make_like_message` as `LikeMsgGet`, `LikeMsgNew` and `LikeMsgUpdate`.
- **Reports:** `ReportGet`, `ReportCreate`, `ReportSave`.
- **Message box:** `MsgListRead`, `MsgListInsert`, `MsgDestroyLoad`, `MsgDestroySave`, `MsgDeleteAll`, `MsgDeleteRead`, `MsgCount`, `MsgCheckGet`, `MsgCheckSave`.
- **Time:** `Tick`.

Bounds (`MCUserAccounts`):
- users 1-3, where user 1 has a review of product 1 that user 2 liked (and its like message), user 2 has a social link, and user 3 has no account;
- 2 products, 2 uids, 2 passwords;
- `Window = 0` and `MaxClock = 1`, so one tick makes every earlier check and update "older than 14 days";
- 4 requests.

Every property's mutant is reached within three requests. An idle worker's request and loaded objects are dead, so the cfgs use `VIEW MCView` to merge states that differ only in them. The `accounts` run reaches about 8.1 million distinct states in about 90 seconds.

## 6. Module `Catalog`

The writing handlers of events, picks, the product page and questions, one web worker pool and the celery worker that runs `update_product_info`. Reads that write nothing are left out; every `save()` of a loaded object writes the value it loaded plus its own change.

| Variable | Code |
|---|---|
| `ehits`, `phits` | Event `hits`, Pick `hits_count` |
| `ecomments`, `eparts` | EventComment and EventParticipants rows |
| `dynList`, `dynPart`, `dynEvent` | the DynamoDB `etc_list` comment count, `event_participants` entries, `events` comment count |
| `pcomments`, `plikes`; `dynComments`, `dynRecommend` | PickComment and PickLike rows; the DynamoDB pick counts |
| `product[p]`, `dynProduct[p]` | Product `read_count` and `review_count`; the DynamoDB `review_count` |
| `wishes` | Wish rows |
| `revs[p]` | committed displayed reviews of p (what the task's aggregate counts) |
| `queued[p]`, `tpc`, `tobj` | `update_product_info` tasks on the queue; the celery worker's position and the Product it loaded |
| `questions`, `requests` | Question rows; RequestedNewProduct, RequestedEditProduct and RequestedIngredient rows with whether the image was stored |
| `goods[p]` | ProductGoods of p (one of `Prices`), or None |
| `inquiries` | Inquiry rows with `is_del` |
| `served` | history: page views served (app and ec), for `ReadCountKept` |

Actions: `EventRetrieveLoad`/`Save`, `EventJoin`, `EventCommentCreate`; `PickRetrieveLoad`/`Save`, `PickCommentCreate`, `PickCommentDestroy`, `PickLikeCreate`, `PickLikeDestroy`; `ProductRetrieveLoad`/`Save`, `EcDetailLoad`/`Save`, `WishCheck`, `WishInsert`, `WishDelete`, `PricingTxn`; `ReviewTxn` (the review write and the `delay` inside the transaction) and `ReviewCommit`; `TaskLoad` and `TaskRun` for the celery worker; `QuestionCreate` and `AskPost` (both through `SaveQuestion`), `RequestCreate`, `IngredientCheck`, `IngredientInsert`; `InquiryCreate`, `InquiryDestroy`. A DynamoDB write or an image store may fail (`\E k`, `\E ok`, `\E image`); a failure inside `transaction.atomic` rolls the rows back and keeps the DynamoDB writes already made.

Bounds (`MCCatalog`): users 1 and 2 (only user 1 has a full profile), one event, one pick, one product with one displayed review, two price values, one web worker and the celery worker. The web worker and the celery worker interleave at every step, which is what the task-before-commit and stale-save defects need; a second web worker multiplies the states without a new kind of step. The `catalog` run serves 3 requests: every property and every mutant is decided within two, and the third lets two review writes queue tasks around a running one. It reaches about 207,000 distinct states in about 12 seconds, with the liveness check. The violation cfgs serve 4 requests (about 6 million states with `Spec`).

Nothing is assumed of either worker: a request may stop between any two steps, and the celery worker may leave a task on the queue. `ReviewCountSettles` (the `product_count` run) asks about the states where the queue has drained, and it excludes a product with no displayed review left, where defect 20 keeps the old count whatever the order.

## 6a. Module `ReviewList`

The list endpoints (`ReviewView.list` when Elasticsearch fails, the product page's review list, the user's review list) call `ReviewService.get_list`. With the default `latest` sort, the first page is an offset page and every later page is a keyset page `id < cursor`. Each fetches `limit + 1` rows. When it gets them all it drops the last and returns `next_offset = results[-2].id`. The module keeps a review row as its id and `_created_at`.

| Variable | Code |
|---|---|
| `live`, `at`, `nextId` | the ids of displayed rows, each row's `_created_at`, the auto-increment counter |
| `clock` | `local_now()` in seconds |
| `tie` | how the database orders equal stamps: by id descending (an index on `_created_at` read backwards) or in any order, per query (a filesort) |
| `wpc`, `wat` | a create request's position and the `now` it took |
| `cpc`, `cursor`, `shown`, `start` | the client: walking or done, the cursor it sends, the ids shown so far, the ids displayed when it began |

Actions: `Tick`; `Stamp(w)` (create 284-288), `Insert(w)` (the save at 298, joined to its commit); `Destroy(i)`; `Fetch`, one `get_list` call, whose `\E s` picks an order the query may return (`Listed`); and `Restart`, a client starting from the first page again. `WalkListsEachOnce` says a finished walk showed every review displayed throughout, and none twice.

Bounds: 4 ids, 3 seconds (0-2), pages of 2 rows (pages of 1 also pass). Three rows and a page of 2 give a full page, a dropped lookahead row and a short last page. `MCReviewList.cfg` (one create request at a time, ties by id) passes in 8,358 states: sequential creates take ids in stamp order. Two create requests (`latest_walk`) or ties in any order (`MCReviewList_ties.cfg`) violate it.

## 7. Runs

| Run | Module | Expect | Checks |
|---|---|---|---|
| sequential | ReviewRanking, 1 worker, 4 requests, both builds, the event window | pass | TypeOK, FirstLogHeldByAuthor, AtMostOneMilestonePerFlag, ResetMatchesHistory |
| delete | ReviewRanking | violation | DeleteReversesScore (defect 3) |
| flag_race | ReviewRanking, 2 workers | violation | AtMostOneMilestonePerFlag (defect 5) |
| reset_race | ReviewRanking, 2 workers | violation | ResetMatchesHistory (defect 6) |
| latest_walk | ReviewList, 2 create requests, pages of 2 | violation | WalkListsEachOnce (defect 29) |
| store | RankStore, failures on | pass | TypeOK, CopyMirrorsWhenQuiet, SerialReadCorrect, PagesListBoard, ViewRefinesUntilFailure |
| store_race | RankStore | violation | RankReadWellFormed (defect 8) |
| store_diverge | RankStore, 2 writers | violation | CopyMirrorsWhenQuiet (defect 10) |
| accounts | UserAccounts, 1 worker, 4 requests | pass | TypeOK, SecededStaysInactive, PasswordKept, ReviewCountMatches, SocialOwnersActive, ReviewCountersMatch, SecessionHidesReviews, OneActiveLikeMessage, DeletedCheckStaysDeleted |
| accounts_resurrect | UserAccounts, 2 workers, 3 requests | violation | SecededStaysInactive (defect 11) |
| catalog | Catalog, 1 web worker and the celery worker, 3 requests | pass | TypeOK, EventRowsInDynamo |
| product_count | Catalog | violation | ReviewCountSettles (defect 18) |

**What the passing runs show.**
- `sequential`: through every create, delete and reset, including a destroy whose Redis reversal failed after the commit, the ledger never names a deleted review. A flag yields at most one milestone while requests are sequential. Each `reset_rank` rebuilds exactly the per-review history at the points it reads, on either side of the event window.
- `store`: the copy mirrors the primary until a write fails, and an undisturbed rank read is the abstract rank. The adapter refines the one-table store up to the first failure. The ranking list's pages, read one after another, list the board exactly once.
- `accounts`, with requests one at a time in any order:
  - a secession is final;
  - the password is the last one saved;
  - review, like and report counters equal their rows;
  - hidden reviews stay hidden;
  - there is one active like message per review;
  - a message check the user deleted stays deleted;
  - a secession that fails midway leaves its hidden reviews hidden and no social row on an inactive account;
  - every social link belongs to an active account.

  These are the handlers' sequential contracts. The two-worker `accounts_resurrect` run shows that the full-row saves break them under concurrency.
- `catalog`: with any of the event, pick, product, wish, review-write and question requests interleaved with the celery task, and any prefix of an event join's DynamoDB writes failing, a committed participant always has its DynamoDB entry: the rows commit only after all three writes succeed.

Every property of a passing run has a mutant in `PROJECT.json`: a plausible code bug (a dropped guard, a missing update, a wrong lookup field) that TLC catches.

## 8. Not modelled
- Separate event windows per Point row: the three rows share one window.
- Reviews in states other than N, the blind state (`services/blinded_reviews.py`), and blacklisted users.
- The user-info hashes, tags and search index: no property reads them.
- Broadcast and group messages, the message target log, and push sends (their failures are swallowed).
- The other sorts of `get_list` (`popular`, `unpopular`, `oldest`), whose cursor is a page number and whose offset pages shift under any concurrent write by design, and the filter conditions of `_set_conditions`. The Elasticsearch list, which is tried first by `ReviewView.list`.
- The read-only handlers: event and pick lists, event `check`, pick like `retrieve`, the wish GET, the inquiry list, product lists and rankings, brands, categories, stores, tags, awards, recommends and notices. They write nothing.
- The push-setting PUT (`common.py:379`): its `update_is_push` helpers are not under `src/`. The EcUser synchronisation (`common.py:438`) copies a User row into the ec database, which nothing modelled reads.
- The elasticsearch bulk update of ec pricing: only its failure, which rolls back the ProductGoods write, is modelled.
- Serializers, forms, settings and swagger: formatting only. The inquiry serializer's board-type validation is a nondeterministic accept or reject in `InquiryCreate`.
- `app/watcher.py` and friends: a standalone exchange-polling script with no shared state.

All of these together are most of the repository's lines: the map covers about 15% of them. What the modules model is every handler that changes shared state. What the map leaves out is the code above, which either writes nothing or only formats, and modelling it would add actions no property could tell apart.

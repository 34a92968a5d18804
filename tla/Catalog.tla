------------------------------ MODULE Catalog ------------------------------
(***************************************************************************)
(* The catalogue-side handlers that write rows: events (join, comment,    *)
(* retrieve), picks (comments, likes, retrieve), the product page         *)
(* (retrieve, wish) with the update_product_info task the review          *)
(* handlers queue, and the question and request forms.                    *)
(*                                                                         *)
(* Three stores are written: the relational rows, the DynamoDB copies the *)
(* event, pick and product pages read (written inside the relational      *)
(* transaction, so a failure of a later write rolls the rows back but not *)
(* the DynamoDB writes already made), and the celery queue.  A request    *)
(* worker keeps the object it loaded in obj[w]; Django's save() writes    *)
(* every column of it back.  One celery worker runs the queued tasks.      *)
(***************************************************************************)
EXTENDS Integers, FiniteSets

CONSTANTS
    Users, Events, Picks, Products,
    Condition,      \* Condition[e]: event._condition, the reviews it requires
    ReviewCount,    \* ReviewCount[u]: user.review_count (kept by UserAccounts)
    Profiled,       \* users with gender, skin_type and birth_year set
    Prices,         \* the goods_count/min/max triples a pricing call may carry
    SeedReviews,    \* SeedReviews[p]: displayed reviews of p at the start
    Workers,        \* request-serving processes
    MaxRequests,    \* bound on the requests served
    None

VARIABLES
    ecomments,      \* EventComment rows [id, user, event]
    eparts,         \* EventParticipants rows [id, user, event]
    dynList,        \* DynamoDB etc_list comment_count per event
    dynEvent,       \* DynamoDB events comments count per event
    dynPart,        \* DynamoDB event_participants: <<event, user>> pairs
    ehits,          \* Event.hits_count
    pcomments,      \* PickComment rows [id, user, pick]
    dynComments,    \* DynamoDB pick comment_count
    plikes,         \* PickLike rows [user, pick]
    dynRecommend,   \* DynamoDB pick recommend_count
    phits,          \* Pick.hits_count
    product,        \* Product rows [read, rc]: read_count, review_count
    dynProduct,     \* DynamoDB product review_count
    wishes,         \* Wish rows [id, user, product]
    revs,           \* revs[p]: committed displayed reviews of p
    queued,         \* queued[p]: update_product_info(p) tasks waiting
    tpc, tobj,      \* the celery worker: "idle" or "run", and its Product
    questions,      \* Question rows [id, user]
    requests,       \* RequestedNewProduct/EditProduct/Ingredient rows
    served,         \* history: product pages served (app and ec), per product
    goods,          \* goods[p]: ProductGoods of p, or None before the first pricing call
    inquiries,      \* Inquiry rows [id, user, del]: is_del
    pc, req, obj, nreq

vars == <<ecomments, eparts, dynList, dynEvent, dynPart, ehits, pcomments,
          dynComments, plikes, dynRecommend, phits, product, dynProduct, wishes,
          revs, queued, tpc, tobj, questions, requests, served, goods, inquiries,
          pc, req, obj, nreq>>

Ev == <<ecomments, eparts, dynList, dynEvent, dynPart, ehits>>
Pk == <<pcomments, dynComments, plikes, dynRecommend, phits>>
Pr == <<product, dynProduct, wishes, revs, queued, tpc, tobj, served>>
Qs == <<questions, requests>>
Ec == <<goods, inquiries>>

Goto(w, l) == pc' = [pc EXCEPT ![w] = l]
Done(w) == Goto(w, "idle") /\ obj' = [obj EXCEPT ![w] = None]

\* a step of a request leaves the request itself alone
KeepReq == UNCHANGED <<req, nreq>>

-----------------------------------------------------------------------------
(* Events (backends/api/v2/events.py).                                     *)

PartsOf(e) == {x \in eparts : x.event = e}

\* the three DynamoDB writes of join and comment create, in code order, of
\* which the first k succeed: update_events_comment, update_event (the
\* participant), update_event_comments_count
DynWrites(e, u, count, k) ==
    /\ dynList' = IF k >= 1 THEN [dynList EXCEPT ![e] = count] ELSE dynList
    /\ dynPart' = IF k >= 2 THEN dynPart \cup {<<e, u>>} ELSE dynPart
    /\ dynEvent' = IF k >= 3 THEN [dynEvent EXCEPT ![e] = count] ELSE dynEvent

\* retrieve: get_object_or_raise_404(Event), the DynamoDB or ORM read and
\* self.check(), then event.hits_count += 1 and event.save() of that object
EventRetrieveLoad(w) ==
    /\ pc[w] = "er_load"
    /\ obj' = [obj EXCEPT ![w] = ehits[req[w].target]]
    /\ Goto(w, "er_save")
    /\ UNCHANGED <<Ev, Pk, Pr, Qs>> /\ UNCHANGED Ec /\ KeepReq

EventRetrieveSave(w) ==
    /\ pc[w] = "er_save"
    /\ ehits' = [ehits EXCEPT ![req[w].target] = obj[w] + 1]
    /\ Done(w)
    /\ UNCHANGED <<ecomments, eparts, dynList, dynEvent, dynPart, Pk, Pr, Qs>> /\ UNCHANGED Ec /\ KeepReq

\* mutation: the DynamoDB writes made after the transaction has committed
EventJoinCommitFirst(w) ==
    LET u == req[w].user
        e == req[w].target
        new == [id |-> req[w].seq, user |-> u, event |-> e]
    IN
    /\ pc[w] = "ej"
    /\ \/ /\ (\E x \in PartsOf(e) : x.user = u) \/ ReviewCount[u] < Condition[e]
          /\ UNCHANGED Ev
       \/ /\ ~\E x \in PartsOf(e) : x.user = u
          /\ ReviewCount[u] >= Condition[e]
          /\ \E k \in 0..3 : DynWrites(e, u, Cardinality(PartsOf(e) \cup {new}) + 1, k)
          /\ ecomments' = ecomments \cup {new}
          /\ eparts' = eparts \cup {new}
          /\ UNCHANGED ehits
    /\ Done(w)
    /\ UNCHANGED <<Pk, Pr, Qs>> /\ UNCHANGED Ec /\ KeepReq

\* join: the participation exists() check and the review_count condition,
\* then one transaction: EventComment and EventParticipants saved,
\* _count = event.users.count() + 1 read after them, the three DynamoDB
\* writes; an exception in any of them rolls the rows back and is answered
\* with is_success False
EventJoin(w) ==
    LET u == req[w].user
        e == req[w].target
        new == [id |-> req[w].seq, user |-> u, event |-> e]
        count == Cardinality(PartsOf(e) \cup {new}) + 1
    IN
    /\ pc[w] = "ej"
    /\ \/ /\ (\E x \in PartsOf(e) : x.user = u) \/ ReviewCount[u] < Condition[e]
          /\ UNCHANGED Ev
       \/ /\ ~\E x \in PartsOf(e) : x.user = u
          /\ ReviewCount[u] >= Condition[e]
          /\ \E k \in 0..3 :
                /\ DynWrites(e, u, count, k)
                /\ ecomments' = IF k = 3 THEN ecomments \cup {new} ELSE ecomments
                /\ eparts' = IF k = 3 THEN eparts \cup {new} ELSE eparts
          /\ UNCHANGED ehits
    /\ Done(w)
    /\ UNCHANGED <<Pk, Pr, Qs>> /\ UNCHANGED Ec /\ KeepReq

\* comment create: an existing EventComment of the user is a Conflict, the
\* condition as in join, then one transaction: the EventComment saved,
\* _count = event.users.count() + 1 (participants: none is added here) and
\* the same three DynamoDB writes, the participant entry included
EventCommentCreate(w) ==
    LET u == req[w].user
        e == req[w].target
        count == Cardinality(PartsOf(e)) + 1
    IN
    /\ pc[w] = "ec"
    /\ \/ /\ (\E x \in ecomments : x.user = u /\ x.event = e) \/ ReviewCount[u] < Condition[e]
          /\ UNCHANGED Ev
       \/ /\ ~\E x \in ecomments : x.user = u /\ x.event = e
          /\ ReviewCount[u] >= Condition[e]
          /\ \E k \in 0..3 :
                /\ DynWrites(e, u, count, k)
                /\ ecomments' = IF k = 3 THEN ecomments \cup {[id |-> req[w].seq, user |-> u, event |-> e]}
                                ELSE ecomments
          /\ UNCHANGED <<eparts, ehits>>
    /\ Done(w)
    /\ UNCHANGED <<Pk, Pr, Qs>> /\ UNCHANGED Ec /\ KeepReq

-----------------------------------------------------------------------------
(* Picks (backends/api/v2/picks.py, services/picks.py,                     *)
(* services/pick_comments.py).                                            *)

CommentsOf(k) == {c \in pcomments : c.pick = k}
LikesOf(k) == {l \in plikes : l.pick = k}

\* retrieve: the pick, product, like and banner reads, then
\* increase_hits_count: Pick.objects.get, hits_count += 1, pick.save()
PickRetrieveLoad(w) ==
    /\ pc[w] = "kr_load"
    /\ obj' = [obj EXCEPT ![w] = phits[req[w].target]]
    /\ Goto(w, "kr_save")
    /\ UNCHANGED <<Ev, Pk, Pr, Qs>> /\ UNCHANGED Ec /\ KeepReq

PickRetrieveSave(w) ==
    /\ pc[w] = "kr_save"
    /\ phits' = [phits EXCEPT ![req[w].target] = obj[w] + 1]
    /\ Done(w)
    /\ UNCHANGED <<Ev, pcomments, dynComments, plikes, dynRecommend, Pr, Qs>> /\ UNCHANGED Ec /\ KeepReq

\* comment create: a user without gender, skin type and birth year is
\* refused; then one transaction: the PickComment saved and
\* update_comment_count with the displayed comments counted after it, + 1;
\* any exception rolls back and is answered with is_success False
PickCommentCreate(w) ==
    LET u == req[w].user
        k == req[w].target
        rows == CommentsOf(k) \cup {[id |-> req[w].seq, user |-> u, pick |-> k]}
    IN
    /\ pc[w] = "kc"
    /\ \/ /\ u \notin Profiled
          /\ UNCHANGED <<pcomments, dynComments>>
       \/ /\ u \in Profiled
          /\ \E ok \in BOOLEAN :
                /\ pcomments' = IF ok THEN pcomments \cup rows ELSE pcomments
                /\ dynComments' = IF ok THEN [dynComments EXCEPT ![k] = Cardinality(rows) + 1]
                                  ELSE dynComments
    /\ Done(w)
    /\ UNCHANGED <<Ev, plikes, dynRecommend, phits, Pr, Qs>> /\ UNCHANGED Ec /\ KeepReq

\* comment destroy: remove_comment gets the comment by id (NotFound), checks
\* its owner (Forbidden) and deletes it; the DynamoDB count is not touched
PickCommentDestroy(w) ==
    /\ pc[w] = "kd"
    /\ pcomments' = {x \in pcomments : x.id # req[w].target \/ x.user # req[w].user}
    /\ Done(w)
    /\ UNCHANGED <<Ev, dynComments, plikes, dynRecommend, phits, Pr, Qs>> /\ UNCHANGED Ec /\ KeepReq

\* like create: the serializer's unique-together validation answers 409 for
\* an existing like; then one transaction: perform_create and
\* update_recommend_count with the pick's likes counted after it, + 1
PickLikeCreate(w) ==
    LET row == [user |-> req[w].user, pick |-> req[w].target] IN
    /\ pc[w] = "kl"
    /\ \/ /\ row \in plikes
          /\ UNCHANGED <<plikes, dynRecommend>>
       \/ /\ row \notin plikes
          /\ \E ok \in BOOLEAN :
                /\ plikes' = IF ok THEN plikes \cup {row} ELSE plikes
                /\ dynRecommend' = IF ok THEN [dynRecommend EXCEPT ![row.pick] =
                                                 Cardinality(LikesOf(row.pick) \cup {row}) + 1]
                                   ELSE dynRecommend
    /\ Done(w)
    /\ UNCHANGED <<Ev, pcomments, dynComments, phits, Pr, Qs>> /\ UNCHANGED Ec /\ KeepReq

\* like destroy: self.queryset is narrowed to (user, pick) first; with no
\* like, get_object's Http404 is passed over and the unbound instance
\* raises NameError, answered 500.  Otherwise one transaction:
\* perform_destroy and update_recommend_count with self.queryset (still
\* narrowed to this user) counted after the delete, - 1
PickLikeDestroy(w) ==
    LET row == [user |-> req[w].user, pick |-> req[w].target]
        narrowed == {l \in plikes \ {row} : l.user = row.user /\ l.pick = row.pick}
    IN
    /\ pc[w] = "ku"
    /\ \/ /\ row \notin plikes
          /\ UNCHANGED <<plikes, dynRecommend>>
       \/ /\ row \in plikes
          /\ \E ok \in BOOLEAN :
                /\ plikes' = IF ok THEN plikes \ {row} ELSE plikes
                /\ dynRecommend' = IF ok THEN [dynRecommend EXCEPT ![row.pick] =
                                                 Cardinality(narrowed) - 1]
                                   ELSE dynRecommend
    /\ Done(w)
    /\ UNCHANGED <<Ev, pcomments, dynComments, phits, Pr, Qs>> /\ UNCHANGED Ec /\ KeepReq

-----------------------------------------------------------------------------
(* The product page (backends/api/v2/products.py) and update_product_info *)
(* (tasks/products.py), queued by review create, update and destroy.       *)

\* retrieve: get_object_or_404(Product), read_count += 1, product.save() of
\* that object with every column; the DynamoDB or ORM detail, the wish and
\* review lookups that follow only read
ProductRetrieveLoad(w) ==
    /\ pc[w] = "pr_load"
    /\ obj' = [obj EXCEPT ![w] = product[req[w].target]]
    /\ Goto(w, "pr_save")
    /\ UNCHANGED <<Ev, Pk, Pr, Qs>> /\ UNCHANGED Ec /\ KeepReq

ProductRetrieveSave(w) ==
    LET p == req[w].target IN
    /\ pc[w] = "pr_save"
    /\ product' = [product EXCEPT ![p] = [obj[w] EXCEPT !.read = @ + 1]]
    /\ served' = [served EXCEPT ![p] = @ + 1]
    /\ Done(w)
    /\ UNCHANGED <<Ev, Pk, dynProduct, wishes, revs, queued, tpc, tobj, Qs>> /\ UNCHANGED Ec /\ KeepReq

WishesOf(u, p) == {x \in wishes : x.user = u /\ x.product = p}

\* wish POST: an existing Wish is answered "already"; otherwise Wish.save(),
\* whose exception is answered "failed"
WishCheck(w) ==
    /\ pc[w] = "wp_check"
    /\ IF WishesOf(req[w].user, req[w].target) = {} THEN Goto(w, "wp_insert") ELSE Done(w)
    /\ UNCHANGED obj
    /\ UNCHANGED <<Ev, Pk, Pr, Qs>> /\ UNCHANGED Ec /\ KeepReq

WishInsert(w) ==
    /\ pc[w] = "wp_insert"
    /\ \E ok \in BOOLEAN :
          wishes' = IF ok THEN wishes \cup {[id |-> req[w].seq, user |-> req[w].user,
                                             product |-> req[w].target]}
                    ELSE wishes
    /\ Done(w)
    /\ UNCHANGED <<Ev, Pk, product, dynProduct, revs, queued, tpc, tobj, served, Qs>> /\ UNCHANGED Ec /\ KeepReq

\* wish DELETE: the (user, product) queryset deleted when it exists
WishDelete(w) ==
    /\ pc[w] = "wd"
    /\ wishes' = wishes \ WishesOf(req[w].user, req[w].target)
    /\ Done(w)
    /\ UNCHANGED <<Ev, Pk, product, dynProduct, revs, queued, tpc, tobj, served, Qs>> /\ UNCHANGED Ec /\ KeepReq

\* ec detail (backends/ec/v2/products.py): get_object_or_404(Product),
\* read_count += 1 and product.save() of that object, as retrieve does
EcDetailLoad(w) ==
    /\ pc[w] = "ed_load"
    /\ obj' = [obj EXCEPT ![w] = product[req[w].target]]
    /\ Goto(w, "ed_save")
    /\ UNCHANGED <<Ev, Pk, Pr, Qs, Ec>> /\ KeepReq

EcDetailSave(w) ==
    LET p == req[w].target IN
    /\ pc[w] = "ed_save"
    /\ product' = [product EXCEPT ![p] = [obj[w] EXCEPT !.read = @ + 1]]
    /\ served' = [served EXCEPT ![p] = @ + 1]
    /\ Done(w)
    /\ UNCHANGED <<Ev, Pk, dynProduct, wishes, revs, queued, tpc, tobj, Qs, Ec>> /\ KeepReq

\* ec pricing: per product of the batch (here one), a transaction with
\* ProductGoods get_or_create, the prices set and saved, then the
\* elasticsearch search and bulk update; an exception there rolls the
\* ProductGoods write back and ends the request with a 500
PricingTxn(w) ==
    /\ pc[w] = "pg"
    /\ \E price \in Prices, ok \in BOOLEAN :
          goods' = IF ok THEN [goods EXCEPT ![req[w].target] = price] ELSE goods
    /\ Done(w)
    /\ UNCHANGED <<Ev, Pk, Pr, Qs, inquiries>> /\ KeepReq

\* mutation: update and destroy without their get_object_or_404 of a
\* displayed review
ReviewTxnNoGet(w) ==
    /\ pc[w] = "rv_txn"
    /\ queued' = [queued EXCEPT ![req[w].target] = @ + 1]
    /\ Goto(w, "rv_commit") /\ UNCHANGED obj
    /\ UNCHANGED <<Ev, Pk, product, dynProduct, wishes, revs, tpc, tobj, served, Qs>> /\ UNCHANGED Ec /\ KeepReq

\* a review create, update or destroy of the product: inside its
\* transaction, after the review row is written, update_product_info.delay
\* puts the task on the queue; the commit follows.  delta is the change in
\* displayed reviews (+1 create, 0 update, -1 destroy of a displayed one);
\* update and destroy first get_object_or_404 a displayed review.
ReviewTxn(w) ==
    LET p == req[w].target IN
    /\ pc[w] = "rv_txn"
    /\ IF req[w].delta <= 0 /\ revs[p] = 0
       THEN Done(w) /\ UNCHANGED queued
       ELSE queued' = [queued EXCEPT ![p] = @ + 1] /\ Goto(w, "rv_commit") /\ UNCHANGED obj
    /\ UNCHANGED <<Ev, Pk, product, dynProduct, wishes, revs, tpc, tobj, served, Qs>> /\ UNCHANGED Ec /\ KeepReq

ReviewCommit(w) ==
    /\ pc[w] = "rv_commit"
    /\ revs' = [revs EXCEPT ![req[w].target] = @ + req[w].delta]
    /\ Done(w)
    /\ UNCHANGED <<Ev, Pk, product, dynProduct, wishes, queued, tpc, tobj, served, Qs>> /\ UNCHANGED Ec /\ KeepReq

\* the celery worker takes a task: get_object_or_404(Product, is_display)
TaskLoad ==
    /\ tpc = "idle"
    /\ \E p \in Products :
          /\ queued[p] > 0
          /\ queued' = [queued EXCEPT ![p] = @ - 1]
          /\ tobj' = [p |-> p, row |-> product[p]]
    /\ tpc' = "run"
    /\ UNCHANGED <<Ev, Pk, product, dynProduct, wishes, revs, served, Qs, Ec, pc, req, obj, nreq>>

\* the aggregate over the committed displayed reviews; with none, every Sum
\* is None and the first addition raises TypeError, so nothing is written.
\* Otherwise review_count (and the rating and score computed from the same
\* sums) set on the loaded object, product.save(), and the DynamoDB update.
TaskRun ==
    LET p == tobj.p
        n == revs[p]
    IN
    /\ tpc = "run"
    /\ \/ /\ n = 0
          /\ UNCHANGED <<product, dynProduct>>
       \/ /\ n > 0
          /\ product' = [product EXCEPT ![p] = [tobj.row EXCEPT !.rc = n]]
          /\ dynProduct' = [dynProduct EXCEPT ![p] = n]
    /\ tpc' = "idle"
    /\ tobj' = None
    /\ UNCHANGED <<Ev, Pk, wishes, revs, queued, served, Qs, Ec, pc, req, obj, nreq>>

-----------------------------------------------------------------------------
(* Questions and requests (backends/api/v2/questions.py).                  *)

RequestRow(kind, u, p, image, id) ==
    [id |-> id, kind |-> kind, user |-> u, product |-> p, image |-> image]

\* Question(...).save(); the reply outside DEBUG reads .id of save()'s
\* None, and the bare except answers "failed" after the row is stored
SaveQuestion(w) ==
    questions' = questions \cup {[id |-> req[w].seq, user |-> req[w].user]}

\* QuestionView.create (questions.py)
QuestionCreate(w) ==
    /\ pc[w] = "q"
    /\ SaveQuestion(w)
    /\ Done(w)
    /\ UNCHANGED <<Ev, Pk, Pr, requests, Ec>> /\ KeepReq

\* QuestionView.post (common.py), the same form and code
AskPost(w) ==
    /\ pc[w] = "ask"
    /\ SaveQuestion(w)
    /\ Done(w)
    /\ UNCHANGED <<Ev, Pk, Pr, requests, Ec>> /\ KeepReq

\* new and edit: the request row saved; new stores the image afterwards,
\* and a failed or empty store leaves the row without one
RequestCreate(w) ==
    /\ pc[w] \in {"rn", "re"}
    /\ \E image \in IF pc[w] = "rn" THEN BOOLEAN ELSE {FALSE} :
          requests' = requests \cup
                        {RequestRow(pc[w], req[w].user, req[w].target, image, req[w].seq)}
    /\ Done(w)
    /\ UNCHANGED <<Ev, Pk, Pr, questions>> /\ UNCHANGED Ec /\ KeepReq

\* ingredient: without a file, "image required"; an existing request of
\* the user for the product is answered "already"; otherwise the row is
\* saved, then the image stored and saved on it unless the store fails
IngredientCheck(w) ==
    LET p == req[w].target IN
    /\ pc[w] = "ig_check"
    /\ \E file \in BOOLEAN :
          IF file /\ ~\E x \in requests : x.kind = "ig" /\ x.user = req[w].user /\ x.product = p
          THEN Goto(w, "ig_insert") /\ UNCHANGED obj
          ELSE Done(w)
    /\ UNCHANGED <<Ev, Pk, Pr, Qs>> /\ UNCHANGED Ec /\ KeepReq

IngredientInsert(w) ==
    /\ pc[w] = "ig_insert"
    /\ \E image \in BOOLEAN :
          requests' = requests \cup
                        {RequestRow("ig", req[w].user, req[w].target, image, req[w].seq)}
    /\ Done(w)
    /\ UNCHANGED <<Ev, Pk, Pr, questions>> /\ UNCHANGED Ec /\ KeepReq

-----------------------------------------------------------------------------
(* Inquiries (backends/api/v2/inquiries.py).                               *)

\* create: the serializer's board-type validation, then the row saved with
\* the hidden is_del = False
InquiryCreate(w) ==
    /\ pc[w] = "iq_new"
    /\ \E valid \in BOOLEAN :
          inquiries' = IF valid
                       THEN inquiries \cup {[id |-> req[w].seq, user |-> req[w].user, del |-> FALSE]}
                       ELSE inquiries
    /\ Done(w)
    /\ UNCHANGED <<Ev, Pk, Pr, Qs, goods>> /\ KeepReq

\* destroy: get_object over the whole queryset (deleted rows and other
\* customers' rows included; Http404 for an unknown id), then
\* perform_destroy sets is_del and saves
InquiryDestroy(w) ==
    /\ pc[w] = "iq_del"
    /\ inquiries' = {IF i.id = req[w].target THEN [i EXCEPT !.del = TRUE] ELSE i : i \in inquiries}
    /\ Done(w)
    /\ UNCHANGED <<Ev, Pk, Pr, Qs, goods>> /\ KeepReq

-----------------------------------------------------------------------------
(* Requests, the specification.                                            *)

\* the handler a request starts in, and what it names
Targets(kind) ==
    CASE kind \in {"er_load", "ej", "ec"} -> Events
      [] kind \in {"kr_load", "kc", "kl", "ku"} -> Picks
      [] kind = "kd" -> {c.id : c \in pcomments} \cup {0}
      [] kind \in {"pr_load", "wp_check", "wd", "rv_txn", "re", "ig_check", "ed_load", "pg"} -> Products
      [] kind = "iq_del" -> {i.id : i \in inquiries} \cup {0}
      [] OTHER -> {None}

Kinds == {"er_load", "ej", "ec", "kr_load", "kc", "kd", "kl", "ku", "pr_load",
          "wp_check", "wd", "rv_txn", "q", "rn", "re", "ig_check", "ed_load",
          "pg", "ask", "iq_new", "iq_del"}

Receive(w) ==
    /\ pc[w] = "idle" /\ nreq < MaxRequests
    /\ \E kind \in Kinds, u \in Users :
       \E t \in Targets(kind), d \in IF kind = "rv_txn" THEN {1, 0, -1} ELSE {0} :
          /\ req' = [req EXCEPT ![w] = [kind |-> kind, user |-> u, target |-> t,
                                        delta |-> d, seq |-> nreq + 1]]
          /\ Goto(w, kind)
    /\ nreq' = nreq + 1
    /\ UNCHANGED <<Ev, Pk, Pr, Qs, Ec, obj>>

Init ==
    /\ ecomments = {} /\ eparts = {} /\ dynPart = {}
    /\ dynList = [e \in Events |-> 0] /\ dynEvent = [e \in Events |-> 0]
    /\ ehits = [e \in Events |-> 0]
    /\ pcomments = {} /\ plikes = {}
    /\ dynComments = [k \in Picks |-> 0] /\ dynRecommend = [k \in Picks |-> 0]
    /\ phits = [k \in Picks |-> 0]
    /\ product = [p \in Products |-> [read |-> 0, rc |-> SeedReviews[p]]]
    /\ dynProduct = SeedReviews /\ revs = SeedReviews
    /\ wishes = {} /\ queued = [p \in Products |-> 0]
    /\ tpc = "idle" /\ tobj = None
    /\ questions = {} /\ requests = {}
    /\ served = [p \in Products |-> 0]
    /\ goods = [p \in Products |-> None] /\ inquiries = {}
    /\ pc = [w \in Workers |-> "idle"]
    /\ req = [w \in Workers |-> None]
    /\ obj = [w \in Workers |-> None]
    /\ nreq = 0

Finished ==
    /\ nreq = MaxRequests /\ \A w \in Workers : pc[w] = "idle"
    /\ tpc = "idle" /\ \A p \in Products : queued[p] = 0

Next ==
    \/ \E w \in Workers :
          \/ Receive(w)
          \/ EventRetrieveLoad(w) \/ EventRetrieveSave(w) \/ EventJoin(w)
          \/ EventCommentCreate(w)
          \/ PickRetrieveLoad(w) \/ PickRetrieveSave(w) \/ PickCommentCreate(w)
          \/ PickCommentDestroy(w) \/ PickLikeCreate(w) \/ PickLikeDestroy(w)
          \/ ProductRetrieveLoad(w) \/ ProductRetrieveSave(w) \/ WishCheck(w)
          \/ WishInsert(w) \/ WishDelete(w) \/ ReviewTxn(w) \/ ReviewCommit(w)
          \/ QuestionCreate(w) \/ RequestCreate(w) \/ IngredientCheck(w)
          \/ IngredientInsert(w) \/ EcDetailLoad(w) \/ EcDetailSave(w)
          \/ PricingTxn(w) \/ AskPost(w) \/ InquiryCreate(w) \/ InquiryDestroy(w)
    \/ TaskLoad \/ TaskRun
    \/ Finished /\ UNCHANGED vars

Spec == Init /\ [][Next]_vars

-----------------------------------------------------------------------------
(* Properties.                                                             *)

TypeOK ==
    /\ eparts \subseteq [id : Nat, user : Users, event : Events]
    /\ dynPart \subseteq Events \X Users
    /\ plikes \subseteq [user : Users, pick : Picks]
    /\ dynRecommend \in [Picks -> Int]
    /\ product \in [Products -> [read : Nat, rc : Nat]]
    /\ revs \in [Products -> Nat] /\ queued \in [Products -> Nat]
    /\ tpc \in {"idle", "run"}
    /\ pc \in [Workers -> Kinds \cup {"idle", "er_save", "kr_save", "pr_save",
                                      "wp_insert", "rv_commit", "ig_insert", "ed_save"}]
    /\ goods \in [Products -> Prices \cup {None}]
    /\ inquiries \subseteq [id : Nat, user : Users, del : BOOLEAN]

\* Every EventParticipants row has its DynamoDB participant entry, which
\* check() answers from: join writes the entry inside the transaction that
\* inserts the row, so a failed DynamoDB write rolls the row back, and no
\* later handler removes either.
EventRowsInDynamo ==
    \A x \in eparts : <<x.event, x.user>> \in dynPart

\* read_count counts every product page served: retrieve's increment is
\* not undone by the full-row product.save() of update_product_info, which
\* writes back the read_count it loaded.
ReadCountKept ==
    \A p \in Products : product[p].read = served[p]

\* Once no request is running and the celery queue is drained, every
\* product that has displayed reviews has review_count equal to their
\* number: the task queued by each review write recomputes it.  A product
\* left with none is excluded: there the task's TypeError on the None sums
\* keeps the old count whatever the order (a defect of its own).
ReviewCountSettles ==
    (/\ \A w \in Workers : pc[w] = "idle"
     /\ tpc = "idle" /\ \A p \in Products : queued[p] = 0)
    => \A p \in Products : revs[p] > 0 => product[p].rc = revs[p]

====

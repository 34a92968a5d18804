---------------------------- MODULE UserAccounts ----------------------------
(***************************************************************************)
(* The rows a user's requests write: the User row and its SocialAccount    *)
(* rows (backends/api/v2/accounts.py), the Review row's counters and       *)
(* display flag, Reviewlike and ReportReview rows (review create, destroy, *)
(* like and reports in backends/api/v2/reviews.py), and the message box,   *)
(* MessageBox and MessageCheck (backends/api/v2/messages.py and            *)
(* make_like_message in services/reviews.py).                              *)
(*                                                                         *)
(* Every handler loads a model object, changes some attributes and calls   *)
(* save(), which writes every column from the object (and inserts the row  *)
(* again if it was deleted).  A handler that loaded the row before another *)
(* handler saved it writes the older values back.  A worker's loaded       *)
(* objects are obj[w] (a User) and robj[w] (a Review, a MessageBox or a    *)
(* set of message ids); each read or write of the code that another        *)
(* request can observe is one step.  Emails are user ids; one social      *)
(* provider (kakao takes the same code path as facebook).  Token,          *)
(* last_login, login_count, profile, tag and message-text columns are left *)
(* out: they are saved the same way and no property reads them.  Time is  *)
(* a clock of ticks, and Window ticks stand for the code's 14 days.  A row *)
(* a request creates takes the request's number as its id.                *)
(***************************************************************************)
EXTENDS Integers, FiniteSets

CONSTANTS Users,          \* user ids (emails)
          Products,       \* products a review is about
          Uids,           \* social-login uids
          Passwords,      \* password hashes clients can send or be issued
          SeedRows,       \* the user rows at the start (None: no account)
          SeedReviews,    \* the Review rows at the start
          SeedLikes,      \* Reviewlike rows at the start
          SeedSocial,     \* SocialAccount rows at the start
          SeedMsgs,       \* MessageBox rows at the start
          SocialUidUnique, \* does the table reject a second row per uid?
          Window,         \* 14 days, in clock ticks
          MaxClock,
          Workers,
          MaxRequests,
          None

VARIABLES row,            \* User rows: [active, pw, rc, lc] or None
          social,         \* SocialAccount rows: [user, uid]
          reviews,        \* Review rows: [id, user, product, display, likes, reports]
          likes,          \* Reviewlike rows: [writer, product, register]
          reports,        \* ReportReview rows: [review, user]
          msgs,           \* MessageBox rows: [id, user, ref, active, updated]
          checks,         \* MessageCheck rows: [id, user, msg, at, read, deleted]
          clock,
          pc, req, obj, robj, \* worker position, request, loaded objects
          nreq,
          lastPw,         \* history: the password a password handler last saved
          seceded,        \* history: users whose secession has been saved
          hidden,         \* history: ids of the reviews a secession hid
          dropped,        \* history: ids of the messages a user deleted
          gone            \* history: ids of the MessageCheck rows marked deleted

vars == <<row, social, reviews, likes, reports, msgs, checks, clock, pc, req, obj,
          robj, nreq, lastPw, seceded, hidden, dropped, gone>>

-----------------------------------------------------------------------------
(* Queries and row updates of the code.                                    *)

\* User.objects.get(id=cuid, is_active=True)
Active(u) == row[u] # None /\ row[u].active

\* validate_email and EmailUniqueValidator: no account has this e-mail
EmailFree(u) == row[u] = None

\* create_user: a fresh active row with zero counters
NewRow(pw) == [active |-> TRUE, pw |-> pw, rc |-> 0, lc |-> 0]

\* mutation: the password set on the object get() returned while the one
\* authenticate() returned is saved
WithPasswordUnset(o, pw) == o

\* user.set_password(new_pw)
WithPassword(o, pw) == [o EXCEPT !.pw = pw]

\* mutation: the attribute is assigned after user.save()
SecededSavedFirst(o) == o

\* user.is_active = False
Seceded(o) == [o EXCEPT !.active = FALSE]

\* mutation: secession keeps the SocialAccount rows
SocialsKept(u) == social

\* SocialAccount.objects.filter(user=user).delete()
SocialsAfterSecession(u) == {s \in social : s.user # u}

\* mutation: the update sets when_seceded only
HideNot(r) == r

\* reviews.update(is_display=False, when_seceded=True)
Hide(r) == [r EXCEPT !.display = FALSE]

ReviewsOf(u) == {r \in reviews : r.user = u}
ReviewsAt(u, p) == {r \in reviews : r.user = u /\ r.product = p}

\* mutation: the Review.objects.filter(user, product).exists() check dropped
CreateConflictNever(u, p) == FALSE

\* create's duplicate check (ConflictException)
CreateConflict(u, p) == ReviewsAt(u, p) # {}

\* user.review_count += 1 on create
ReviewAdded(o) == [o EXCEPT !.rc = @ + 1]

\* mutation: destroy forgets the counter
ReviewRemovedNoCount(o) == o

\* user.review_count -= 1 on destroy
ReviewRemoved(o) == [o EXCEPT !.rc = @ - 1]

LikesOf(likeRows, u, p) == {l \in likeRows : l.writer = u /\ l.product = p}

\* get_user_score_info: counting_for_user_score over the committed rows
Recounted(o, u, likeRows) ==
    [o EXCEPT !.rc = Cardinality(ReviewsOf(u)),
              !.lc = Cardinality({l \in likeRows : l.writer = u})]

\* has_report: a waiting ReportReview of this user for this review
HasReport(rid, u) == \E x \in reports : x.review = rid /\ x.user = u

\* mutation: report_count is not incremented
ReportCountedNot(r) == r

\* review.report_count += 1
ReportCounted(r) == [r EXCEPT !.reports = @ + 1]

\* mutation: get_or_create given updated_at as a lookup field
LikeMessagesAt(rid) == {m \in msgs : m.ref = rid /\ m.active /\ m.updated = clock}

\* get_or_create(user_id=writer, category='like', reference_id=review_id,
\* is_active=True): the lookup
LikeMessages(rid) == {m \in msgs : m.ref = rid /\ m.active}

\* the user's MessageCheck rows of a message
ChecksOf(u, mid) == {c \in checks : c.user = u /\ c.msg = mid}

\* MessageView.get_queryset: the user's active messages that the user has
\* not deleted (user-specific messages; broadcasts are not modelled)
Visible(u) ==
    {m \in msgs : m.user = u /\ m.active /\ \A c \in ChecksOf(u, m.id) : ~c.deleted}

\* mutation: the update() of deleted_at left out
ChecksDeletedNot(u, mids) == checks

\* MessageCheck.objects.filter(user, message__in=...).update(deleted_at=...)
ChecksDeleted(u, mids) ==
    {IF c.user = u /\ c.msg \in mids THEN [c EXCEPT !.deleted = TRUE] ELSE c : c \in checks}

\* mutation: the update() of is_active left out
DeactivatedNone(ms) == msgs

\* queryset.update(is_active=False): one column of the matching rows
Deactivated(ms) == {IF m \in ms THEN [m EXCEPT !.active = FALSE] ELSE m : m \in msgs}

-----------------------------------------------------------------------------
(* Worker bookkeeping.                                                      *)

Goto(w, l) == pc' = [pc EXCEPT ![w] = l]
Done(w) == pc' = [pc EXCEPT ![w] = "idle"]
LoadRow(w, u) == obj' = [obj EXCEPT ![w] = [id |-> u, r |-> row[u]]]
Load(w, o) == robj' = [robj EXCEPT ![w] = o]
\* Model.save(): every column from the loaded object; a deleted row is
\* inserted again with its old primary key
SaveRow(w, o) == row' = [row EXCEPT ![obj[w].id] = o]
SaveReview(o) == reviews' = {r \in reviews : r.id # o.id} \cup {o}
SaveMsg(o) == msgs' = {m \in msgs : m.id # o.id} \cup {o}

\* the first step of each handler
Entry == [signin_email |-> "si_auth", signin_social |-> "si_social",
          auto |-> "au_load", push |-> "pt_load", chpw |-> "cp_load",
          temppw |-> "tp_load", connect |-> "cn_load", disconnect |-> "dc",
          inactive |-> "in_load", signup |-> "su", create |-> "rc_load",
          destroy |-> "rd_get", update |-> "ru_load", like |-> "lk_load",
          report |-> "rp_get", mlist |-> "ml_read", mdestroy |-> "md_load",
          mall |-> "m_all", mread |-> "m_read", mcount |-> "m_count",
          mcheck |-> "mc_get", profile |-> "pf_load", me |-> "me_load",
          uupdate |-> "uu_load"]

R(k, u, pw, nw, uid, p, wr) ==
    [kind |-> k, user |-> u, pw |-> pw, new |-> nw, uid |-> uid, product |-> p,
     writer |-> wr, seq |-> 0]

\* each handler with the parameters it reads (IDREGISTER, email, passwords,
\* uid, review as writer and product); None where it takes no such parameter
Requests ==
    LET N == None IN
       {R("signin_email", u, pw, N, N, N, N) : u \in Users, pw \in Passwords}
    \cup {R("signin_social", N, N, N, uid, N, N) : uid \in Uids}
    \cup {R(k, u, N, N, N, N, N) : k \in {"auto", "push", "disconnect", "inactive",
                                         "mlist", "mdestroy", "mall", "mread",
                                         "mcount", "mcheck", "profile", "me",
                                         "uupdate"},
                                  u \in Users}
    \cup {R("chpw", u, pw, nw, N, N, N) : u \in Users, pw \in Passwords, nw \in Passwords}
    \cup {R("temppw", u, N, nw, N, N, N) : u \in Users, nw \in Passwords}
    \cup {R("connect", u, N, N, uid, N, N) : u \in Users, uid \in Uids}
    \cup {R("signup", u, pw, N, uid, N, N) : u \in Users, pw \in Passwords,
                                            uid \in Uids \cup {N}}
    \cup {R(k, u, N, N, N, p, N) : k \in {"create", "destroy", "update"}, u \in Users, p \in Products}
    \cup {R(k, u, N, N, N, p, wr) : k \in {"like", "report"}, u \in Users,
                                   p \in Products, wr \in Users}

Receive(w) ==
    /\ pc[w] = "idle" /\ nreq < MaxRequests
    /\ \E r \in Requests :
          /\ req' = [req EXCEPT ![w] = [r EXCEPT !.seq = nreq + 1]]
          /\ Goto(w, Entry[r.kind])
    /\ nreq' = nreq + 1
    /\ UNCHANGED <<row, social, reviews, likes, reports, msgs, checks, clock, obj,
                   robj, lastPw, seceded, hidden, dropped, gone>>

\* time passes between any two steps
Tick ==
    /\ clock < MaxClock
    /\ clock' = clock + 1
    /\ UNCHANGED <<row, social, reviews, likes, reports, msgs, checks, pc, req, obj,
                   robj, nreq, lastPw, seceded, hidden, dropped, gone>>

Data == <<row, social, reviews, likes, reports, msgs, checks, clock, lastPw,
          seceded, hidden, dropped, gone>>

\* an early return or exception: the handler ends with no further write
Fail(w) == Done(w) /\ UNCHANGED <<Data, obj, robj>>

-----------------------------------------------------------------------------
(* Sign-in, auto sign-in and push-token update: load, then save.           *)

\* custom_auth.authenticate(email, password), then NoEmail / IsInactiveUser
SignInAuth(w) ==
    LET u == req[w].user IN
    /\ pc[w] = "si_auth"
    /\ \/ /\ row[u] # None /\ row[u].pw = req[w].pw /\ row[u].active
          /\ LoadRow(w, u) /\ Goto(w, "save")
          /\ UNCHANGED Data
       \/ /\ ~(row[u] # None /\ row[u].pw = req[w].pw /\ row[u].active)
          /\ Fail(w)
    /\ UNCHANGED <<req, nreq, robj>>

\* SocialAccount.objects.get(provider, uid): NoSocialLogin when there is no
\* row, MultipleObjectsReturned when the uid has two
SignInSocial(w) ==
    LET owners == {s.user : s \in {t \in social : t.uid = req[w].uid}} IN
    /\ pc[w] = "si_social"
    /\ \/ /\ Cardinality(owners) = 1
          /\ req' = [req EXCEPT ![w].user = CHOOSE o \in owners : TRUE]
          /\ Goto(w, "si_user")
          /\ UNCHANGED <<Data, obj, robj>>
       \/ /\ Cardinality(owners) # 1
          /\ Fail(w) /\ UNCHANGED req
    /\ UNCHANGED <<nreq, robj>>

\* User.objects.get(id=sociallogin.user_id): no is_active check on this path
SignInUser(w) ==
    /\ pc[w] = "si_user"
    /\ LoadRow(w, req[w].user) /\ Goto(w, "save")
    /\ UNCHANGED <<Data, req, nreq, robj>>

\* AndoroidAutoSignInView: User.objects.get(id, is_active=True) or NoUser
AutoSignInLoad(w) ==
    LET u == req[w].user IN
    /\ pc[w] = "au_load"
    /\ \/ /\ Active(u) /\ LoadRow(w, u) /\ Goto(w, "save")
          /\ UNCHANGED Data
       \/ /\ ~Active(u) /\ Fail(w)
    /\ UNCHANGED <<req, nreq, robj>>

\* PushTokenUpdateView: an unknown or seceded id becomes user_id = -1 and
\* the token save is skipped
PushTokenLoad(w) ==
    LET u == req[w].user IN
    /\ pc[w] = "pt_load"
    /\ \/ /\ Active(u) /\ LoadRow(w, u) /\ Goto(w, "save")
          /\ UNCHANGED Data
       \/ /\ ~Active(u) /\ Fail(w)
    /\ UNCHANGED <<req, nreq, robj>>

\* users.py: load the User, set profile columns (name, address; gender,
\* skin type, birth year and the image), then user.save().  profile PUT
\* takes get_object_or_404(User, id=pk) and me PUT User.objects.get(id),
\* neither testing is_active; update takes get(id=pk, is_active=True).
ProfileLoad(w, at, ok) ==
    /\ pc[w] = at
    /\ \/ /\ ok /\ LoadRow(w, req[w].user) /\ Goto(w, "save")
          /\ UNCHANGED Data
       \/ /\ ~ok /\ Fail(w)
    /\ UNCHANGED <<req, nreq, robj>>

UserProfileLoad(w) == ProfileLoad(w, "pf_load", row[req[w].user] # None)

UserMeLoad(w) == ProfileLoad(w, "me_load", row[req[w].user] # None)

UserUpdateLoad(w) == ProfileLoad(w, "uu_load", Active(req[w].user))

\* user.save() of the token and of last_login/login_count: the whole row
RowSave(w) ==
    /\ pc[w] = "save"
    /\ SaveRow(w, obj[w].r) /\ Done(w)
    /\ UNCHANGED <<social, reviews, likes, reports, msgs, checks, clock, hidden, dropped, gone, lastPw, seceded, req, obj, robj, nreq>>

-----------------------------------------------------------------------------
(* Passwords.                                                              *)

\* ChangePasswordView: get(id, is_active=True), then authenticate(old_pw)
\* reloads the user; InvalidCurrentPassword when it fails
ChangePasswordLoad(w) ==
    LET u == req[w].user IN
    /\ pc[w] = "cp_load"
    /\ \/ /\ Active(u) /\ row[u].pw = req[w].pw
          /\ LoadRow(w, u) /\ Goto(w, "pw_save")
          /\ UNCHANGED Data
       \/ /\ ~(Active(u) /\ row[u].pw = req[w].pw) /\ Fail(w)
    /\ UNCHANGED <<req, nreq, robj>>

\* IssueTemporaryPasswordView: get(email); NoUser, or Conflict if seceded
TempPasswordLoad(w) ==
    LET u == req[w].user IN
    /\ pc[w] = "tp_load"
    /\ \/ /\ Active(u) /\ LoadRow(w, u) /\ Goto(w, "pw_save")
          /\ UNCHANGED Data
       \/ /\ ~Active(u) /\ Fail(w)
    /\ UNCHANGED <<req, nreq, robj>>

\* user.set_password(new); user.save().  The temporary password's e-mail
\* is sent after the save and its failure changes no state.
PasswordSave(w) ==
    /\ pc[w] = "pw_save"
    /\ SaveRow(w, WithPassword(obj[w].r, req[w].new))
    /\ lastPw' = [lastPw EXCEPT ![obj[w].id] = req[w].new]
    /\ Done(w)
    /\ UNCHANGED <<social, reviews, likes, reports, msgs, checks, clock, hidden, dropped, gone, seceded, req, obj, robj, nreq>>

-----------------------------------------------------------------------------
(* Social accounts, secession and sign-up.                                 *)

\* ConnectSocialAccountView: get(id, is_active=True), then the uid's
\* exists() check; a uid already linked ends the request (extra_data update
\* or Conflict)
ConnectLoad(w) ==
    LET u == req[w].user IN
    /\ pc[w] = "cn_load"
    /\ \/ /\ Active(u) /\ \A s \in social : s.uid # req[w].uid
          /\ Goto(w, "cn_insert")
          /\ UNCHANGED <<Data, obj, robj>>
       \/ /\ ~(Active(u) /\ \A s \in social : s.uid # req[w].uid) /\ Fail(w)
    /\ UNCHANGED <<req, nreq, robj>>

\* a uid row inserted by some other request since the check is an
\* IntegrityError only if the table is unique per uid
LinkRejected(uid) == SocialUidUnique /\ \E s \in social : s.uid = uid

LinkSocial(u, uid) ==
    social' = IF LinkRejected(uid) THEN social
              ELSE social \cup {[user |-> u, uid |-> uid]}

\* SocialAccount(user, provider, uid).save()
ConnectInsert(w) ==
    /\ pc[w] = "cn_insert"
    /\ LinkSocial(req[w].user, req[w].uid) /\ Done(w)
    /\ UNCHANGED <<row, reviews, likes, reports, msgs, checks, clock, hidden, dropped, gone, lastPw, seceded, req, obj, robj, nreq>>

\* DisConnectSocialAccountView: get(id, is_active=True), then delete the
\* user's rows of the provider
Disconnect(w) ==
    LET u == req[w].user IN
    /\ pc[w] = "dc"
    /\ \/ /\ Active(u)
          /\ social' = {s \in social : s.user # u} /\ Done(w)
          /\ UNCHANGED <<row, reviews, likes, reports, msgs, checks, clock, hidden, dropped, gone, lastPw, seceded, obj>>
       \/ /\ ~Active(u) /\ Fail(w)
    /\ UNCHANGED <<req, nreq, robj>>

\* AccountInactiveView: get(id, is_active=True)
InactiveLoad(w) ==
    LET u == req[w].user IN
    /\ pc[w] = "in_load"
    /\ \/ /\ Active(u) /\ LoadRow(w, u) /\ Goto(w, "in_clear")
          /\ UNCHANGED Data
       \/ /\ ~Active(u) /\ Fail(w)
    /\ UNCHANGED <<req, nreq, robj>>

\* delete the SocialAccount rows; reviews.update(is_display=False,
\* when_seceded=True); the tag and search-index updates per review are not
\* modelled
InactiveClear(w) ==
    LET u == req[w].user IN
    /\ pc[w] = "in_clear"
    /\ social' = SocialsAfterSecession(u)
    /\ reviews' = {IF r.user = u THEN Hide(r) ELSE r : r \in reviews}
    /\ hidden' = hidden \cup {r.id : r \in ReviewsOf(u)}
    /\ Goto(w, "in_save")
    /\ UNCHANGED <<row, likes, reports, msgs, checks, clock, lastPw, seceded, req, obj,
                   robj, nreq, dropped, gone>>

\* user.is_active = False; user.save().  The period_zrem calls that follow
\* are the leaderboard's (RankStore).
InactiveSave(w) ==
    /\ pc[w] = "in_save"
    /\ SaveRow(w, Seceded(obj[w].r))
    /\ seceded' = [seceded EXCEPT ![obj[w].id] = TRUE]
    /\ Done(w)
    /\ UNCHANGED <<social, reviews, likes, reports, msgs, checks, clock, hidden, dropped, gone, lastPw, req, obj, robj, nreq>>

\* the per-review elasticsearch update raises after reviews.update(): the
\* bare except turns it into FailedInactiveUser before user.save(), and with
\* no transaction the socials stay deleted and the reviews hidden
InactiveAbort(w) ==
    /\ pc[w] = "in_save"
    /\ Fail(w)
    /\ UNCHANGED <<req, nreq>>

\* SignUpView: validate_email and EmailUniqueValidator reject an e-mail that
\* has an account; create_user, then the SocialAccount for a social method.
\* A uid linked meanwhile fails the insert after the account exists.  The
\* sign-up message is inserted last, unless the IntegrityError ended the
\* request.
SignUp(w) ==
    LET u == req[w].user IN
    /\ pc[w] = "su"
    /\ \/ /\ EmailFree(u)
          /\ row' = [row EXCEPT ![u] = NewRow(req[w].pw)]
          /\ lastPw' = [lastPw EXCEPT ![u] = req[w].pw]
          /\ IF req[w].uid = None THEN UNCHANGED social ELSE LinkSocial(u, req[w].uid)
          /\ msgs' = IF req[w].uid # None /\ LinkRejected(req[w].uid) THEN msgs
                     ELSE msgs \cup {[id |-> req[w].seq, user |-> u, ref |-> None,
                                       active |-> TRUE, updated |-> clock]}
          /\ Done(w)
          /\ UNCHANGED <<reviews, likes, reports, checks, clock, hidden, dropped, gone, seceded, obj>>
       \/ /\ ~EmailFree(u) /\ Fail(w)
    /\ UNCHANGED <<req, nreq, robj>>

-----------------------------------------------------------------------------
(* Review create, destroy, like and report.                                *)

\* create: user = get_object_or_404(User, id=cuid), with no is_active test;
\* reset_rank and validation run before the duplicate check
CreateLoad(w) ==
    LET u == req[w].user IN
    /\ pc[w] = "rc_load"
    /\ \/ /\ row[u] # None /\ LoadRow(w, u) /\ Goto(w, "rc_check")
          /\ UNCHANGED Data
       \/ /\ row[u] = None /\ Fail(w)
    /\ UNCHANGED <<req, nreq, robj>>

\* Review.objects.filter(user, product).exists(), outside the transaction
CreateCheck(w) ==
    /\ pc[w] = "rc_check"
    /\ \/ /\ CreateConflict(req[w].user, req[w].product) /\ Fail(w)
       \/ /\ ~CreateConflict(req[w].user, req[w].product)
          /\ Goto(w, "rc_txn") /\ UNCHANGED <<Data, obj, robj>>
    /\ UNCHANGED <<req, nreq>>

\* review.save(), user.review_count += 1, user.save()
CreateTxn(w) ==
    /\ pc[w] = "rc_txn"
    /\ reviews' = reviews \cup {[id |-> req[w].seq, user |-> req[w].user,
                                 product |-> req[w].product, display |-> TRUE,
                                 likes |-> 0, reports |-> 0]}
    /\ SaveRow(w, ReviewAdded(obj[w].r)) /\ Done(w)
    /\ UNCHANGED <<social, likes, reports, msgs, checks, clock, lastPw, seceded, hidden, dropped, gone,
                   req, obj, robj, nreq>>

\* destroy: get_object_or_404(User, id) before reset_rank, then
\* get_object_or_404(Review, id=pk, user, is_display=True)
DestroyGet(w) ==
    LET u == req[w].user
        found == {r \in ReviewsAt(u, req[w].product) : r.display}
    IN
    /\ pc[w] = "rd_get"
    /\ \/ /\ row[u] # None /\ found # {}
          /\ \E r \in found : Load(w, r)
          /\ LoadRow(w, u) /\ Goto(w, "rd_txn")
          /\ UNCHANGED Data
       \/ /\ ~(row[u] # None /\ found # {}) /\ Fail(w)
    /\ UNCHANGED <<req, nreq>>

\* the likes of (user, product) deleted, the review's like messages set
\* inactive, review.delete() by id (a no-op if gone), review_count -= 1 and
\* user.save()
DestroyTxn(w) ==
    LET u == req[w].user
        rid == robj[w].id
    IN
    /\ pc[w] = "rd_txn"
    /\ likes' = likes \ LikesOf(likes, u, req[w].product)
    /\ msgs' = Deactivated({m \in msgs : m.user = u /\ m.ref = rid})
    /\ reviews' = {r \in reviews : r.id # rid}
    /\ SaveRow(w, ReviewRemoved(obj[w].r)) /\ Done(w)
    /\ UNCHANGED <<social, reports, checks, clock, lastPw, seceded, hidden, dropped, gone, req, obj,
                   robj, nreq>>

\* update: get_object_or_404(User, id=cuid), then
\* get_object_or_404(Review, id=pk, user, is_display=True)
ReviewUpdateLoad(w) ==
    LET u == req[w].user
        found == {r \in ReviewsAt(u, req[w].product) : r.display}
    IN
    /\ pc[w] = "ru_load"
    /\ \/ /\ row[u] # None /\ \E r \in found : Load(w, r)
          /\ Goto(w, "ru_save") /\ UNCHANGED <<Data, obj>>
       \/ /\ (row[u] = None \/ found = {}) /\ Fail(w)
    /\ UNCHANGED <<req, nreq>>

\* state, ip_address, contents and rating set on the loaded review, then
\* review.save(); the tag rows are rewritten and review.tag is set and
\* saved again: both saves write every column from the loaded review
ReviewUpdateSave(w) ==
    /\ pc[w] = "ru_save"
    /\ SaveReview(robj[w]) /\ Done(w)
    /\ UNCHANGED <<row, social, likes, reports, msgs, checks, clock, lastPw, seceded,
                   hidden, dropped, gone, req, obj, robj, nreq>>

\* like: register = get(id, is_active=True); review = get_object_or_404
\* (any display state); writer = review.user loads the writer's row; own
\* review and already-liked are Conflicts
LikeLoad(w) ==
    LET u == req[w].user
        wr == req[w].writer
        p == req[w].product
        ok == Active(u) /\ ReviewsAt(wr, p) # {} /\ wr # u
              /\ [writer |-> wr, product |-> p, register |-> u] \notin likes
    IN
    /\ pc[w] = "lk_load"
    /\ \/ /\ ok /\ \E r \in ReviewsAt(wr, p) : Load(w, r)
          /\ LoadRow(w, wr) /\ Goto(w, "lk_txn")
          /\ UNCHANGED Data
       \/ /\ ~ok /\ Fail(w)
    /\ UNCHANGED <<req, nreq>>

\* Reviewlike(...).save(); get_user_score_info recounts the writer and
\* writer.save() writes the loaded writer; review.like_count is recounted
\* and review.save() writes the loaded review with it
LikeTxn(w) ==
    LET wr == req[w].writer
        p == req[w].product
        new == likes \cup {[writer |-> wr, product |-> p, register |-> req[w].user]}
        rv == [robj[w] EXCEPT !.likes = Cardinality(LikesOf(new, wr, p))]
    IN
    /\ pc[w] = "lk_txn"
    /\ likes' = new
    /\ SaveRow(w, Recounted(obj[w].r, wr, new))
    /\ SaveReview(rv) /\ Load(w, rv)
    /\ Goto(w, "lk_msg")
    /\ UNCHANGED <<social, reports, msgs, checks, clock, lastPw, seceded, hidden, dropped, gone, req,
                   obj, nreq>>

\* make_like_message: Review.objects.get(id) (DoesNotExist is swallowed),
\* then get_or_create's lookup; MultipleObjectsReturned is swallowed too
LikeMsgGet(w) ==
    LET rid == robj[w].id
        found == LikeMessages(rid)
    IN
    /\ pc[w] = "lk_msg"
    /\ \/ /\ ~\E r \in reviews : r.id = rid
          /\ Fail(w)
       \/ /\ \E r \in reviews : r.id = rid
          /\ \/ found = {} /\ Goto(w, "lk_msg_new") /\ UNCHANGED robj
             \/ \E m \in found : Cardinality(found) = 1 /\ Load(w, m)
                                 /\ Goto(w, "lk_msg_upd")
             \/ Cardinality(found) > 1 /\ Done(w) /\ UNCHANGED robj
          /\ UNCHANGED <<Data, obj>>
    /\ UNCHANGED <<req, nreq>>

\* get_or_create's insert, then obj.save() of the message text
LikeMsgNew(w) ==
    /\ pc[w] = "lk_msg_new"
    /\ msgs' = msgs \cup {[id |-> req[w].seq, user |-> req[w].writer, ref |-> robj[w].id,
                           active |-> TRUE, updated |-> clock]}
    /\ Done(w)
    /\ UNCHANGED <<row, social, reviews, likes, reports, checks, clock, lastPw, seceded,
                   hidden, dropped, gone, req, obj, robj, nreq>>

\* the writer's MessageCheck rows of the message deleted (it is unread
\* again); obj.updated_at = created_at; obj.save() of the loaded message
LikeMsgUpdate(w) ==
    /\ pc[w] = "lk_msg_upd"
    /\ checks' = checks \ ChecksOf(req[w].writer, robj[w].id)
    /\ SaveMsg([robj[w] EXCEPT !.updated = clock])
    /\ Done(w)
    /\ UNCHANGED <<row, social, reviews, likes, reports, clock, lastPw, seceded, hidden, dropped, gone,
                   req, obj, robj, nreq>>

\* reports: get_object_or_404(Review, id=pk); the own review is
\* InvalidParameter and a waiting report of this user is a Conflict
ReportGet(w) ==
    LET u == req[w].user
        found == {r \in ReviewsAt(req[w].writer, req[w].product) :
                      r.user # u /\ ~HasReport(r.id, u)}
    IN
    /\ pc[w] = "rp_get"
    /\ \/ /\ \E r \in found : Load(w, r)
          /\ Goto(w, "rp_create") /\ UNCHANGED <<Data, obj>>
       \/ /\ found = {} /\ Fail(w)
    /\ UNCHANGED <<req, nreq>>

\* create_report: ReportReview(review_id, user_id, ...).save()
ReportCreate(w) ==
    /\ pc[w] = "rp_create"
    /\ reports' = reports \cup {[review |-> robj[w].id, user |-> req[w].user]}
    /\ Goto(w, "rp_save")
    /\ UNCHANGED <<row, social, reviews, likes, msgs, checks, clock, lastPw, seceded,
                   hidden, dropped, gone, req, obj, robj, nreq>>

\* review.report_count += 1; review.save() of the review loaded at the start
ReportSave(w) ==
    /\ pc[w] = "rp_save"
    /\ SaveReview(ReportCounted(robj[w]))
    /\ Done(w)
    /\ UNCHANGED <<row, social, likes, reports, msgs, checks, clock, lastPw, seceded,
                   hidden, dropped, gone, req, obj, robj, nreq>>

-----------------------------------------------------------------------------
(* The message box of messages.py.                                         *)

\* list: get_object_or_404(User); the visible messages that have no check
\* of the user at or after now - 14 days
MsgListRead(w) ==
    LET u == req[w].user
        fresh == {m \in Visible(u) :
                     ~\E c \in ChecksOf(u, m.id) : c.at >= clock - Window}
    IN
    /\ pc[w] = "ml_read"
    /\ \/ /\ row[u] # None /\ Load(w, {m.id : m \in fresh})
          /\ Goto(w, "ml_insert") /\ UNCHANGED <<Data, obj>>
       \/ /\ row[u] = None /\ Fail(w)
    /\ UNCHANGED <<req, nreq>>

\* bulk_create(MessageCheck(user, message) for each): checked_at is the
\* insert time and read_at is unset
MsgListInsert(w) ==
    /\ pc[w] = "ml_insert"
    /\ checks' = checks \cup {[id |-> <<req[w].seq, mid>>, user |-> req[w].user,
                               msg |-> mid, at |-> clock, read |-> FALSE,
                               deleted |-> FALSE] : mid \in robj[w]}
    /\ Done(w)
    /\ UNCHANGED <<row, social, reviews, likes, reports, msgs, clock, lastPw, seceded,
                   hidden, dropped, gone, req, obj, robj, nreq>>

\* destroy: get_object() through get_queryset, a visible message
MsgDestroyLoad(w) ==
    LET u == req[w].user IN
    /\ pc[w] = "md_load"
    /\ \/ /\ row[u] # None /\ \E m \in Visible(u) : Load(w, m)
          /\ Goto(w, "md_save") /\ UNCHANGED <<Data, obj>>
       \/ /\ (row[u] = None \/ Visible(u) = {}) /\ Fail(w)
    /\ UNCHANGED <<req, nreq>>

\* perform_destroy: the user's checks of it get deleted_at;
\* instance.is_active = False; instance.save() of the loaded message
MsgDestroySave(w) ==
    /\ pc[w] = "md_save"
    /\ checks' = ChecksDeleted(req[w].user, {robj[w].id})
    /\ SaveMsg([robj[w] EXCEPT !.active = FALSE])
    /\ dropped' = dropped \cup {robj[w].id}
    /\ gone' = gone \cup {c.id : c \in ChecksOf(req[w].user, robj[w].id)}
    /\ Done(w)
    /\ UNCHANGED <<row, social, reviews, likes, reports, clock, lastPw, seceded, hidden,
                   req, obj, robj, nreq>>

\* all and read: the user's checks of the chosen visible messages get
\* deleted_at by update(); then query_set.update(is_active=False) runs the
\* same lazy queryset again, whose get_queryset exclude now drops every
\* message the user had a check of, so only the unchecked ones are set
\* inactive; read chooses the messages that some check has read
MsgDeleteSome(w, kind, ms) ==
    LET u == req[w].user IN
    /\ pc[w] = kind
    /\ \/ /\ row[u] # None
          /\ checks' = ChecksDeleted(u, {m.id : m \in ms})
          /\ msgs' = Deactivated({m \in ms : ChecksOf(u, m.id) = {}})
          /\ dropped' = dropped \cup {m.id : m \in ms}
          /\ gone' = gone \cup {c.id : c \in {x \in checks : x.user = u /\ x.msg \in {m.id : m \in ms}}}
          /\ Done(w)
          /\ UNCHANGED <<row, social, reviews, likes, reports, clock, lastPw, seceded,
                         hidden, obj, robj>>
       \/ /\ row[u] = None /\ Fail(w)
    /\ UNCHANGED <<req, nreq>>

MsgDeleteAll(w) == MsgDeleteSome(w, "m_all", Visible(req[w].user))

MsgDeleteRead(w) ==
    MsgDeleteSome(w, "m_read",
                  {m \in Visible(req[w].user) : \E c \in checks : c.msg = m.id /\ c.read})

\* count: messages not updated for 14 days are set inactive by update(),
\* then get_object_or_404(User); the count itself changes nothing
MsgCount(w) ==
    LET u == req[w].user IN
    /\ pc[w] = "m_count"
    /\ msgs' = Deactivated({m \in msgs : m.user = u /\ m.active
                                        /\ m.updated < clock - Window})
    /\ Done(w)
    /\ UNCHANGED <<row, social, reviews, likes, reports, checks, clock, lastPw, seceded,
                   hidden, dropped, gone, req, obj, robj, nreq>>

\* check: get_object_or_404(User), get_object_or_404(MessageBox, id=pk) of
\* any message, then get_or_create(user, message): the lookup inserts a
\* row when there is none and raises MultipleObjectsReturned on two
MsgCheckGet(w) ==
    LET u == req[w].user IN
    /\ pc[w] = "mc_get"
    /\ \/ /\ row[u] # None
          /\ \E m \in msgs :
               LET cs == ChecksOf(u, m.id)
                   new == [id |-> <<req[w].seq, m.id>>, user |-> u, msg |-> m.id,
                           at |-> clock, read |-> FALSE, deleted |-> FALSE]
               IN \/ /\ cs = {} /\ checks' = checks \cup {new} /\ Load(w, new)
                     /\ Goto(w, "mc_save")
                  \/ /\ Cardinality(cs) = 1 /\ \E c \in cs : Load(w, c)
                     /\ Goto(w, "mc_save") /\ UNCHANGED checks
                  \/ /\ Cardinality(cs) > 1 /\ Done(w)
                     /\ UNCHANGED <<checks, robj>>
          /\ UNCHANGED <<row, social, reviews, likes, reports, msgs, clock, lastPw,
                         seceded, hidden, dropped, gone, obj>>
       \/ /\ (row[u] = None \/ msgs = {}) /\ Fail(w)
    /\ UNCHANGED <<req, nreq>>

\* obj.read_at = now; obj.save() of the loaded check, every column
MsgCheckSave(w) ==
    /\ pc[w] = "mc_save"
    /\ checks' = {c \in checks : c.id # robj[w].id} \cup {[robj[w] EXCEPT !.read = TRUE]}
    /\ Done(w)
    /\ UNCHANGED <<row, social, reviews, likes, reports, msgs, clock, lastPw, seceded,
                   hidden, dropped, gone, req, obj, robj, nreq>>

-----------------------------------------------------------------------------

Init ==
    /\ row = SeedRows
    /\ social = SeedSocial
    /\ reviews = SeedReviews
    /\ likes = SeedLikes
    /\ reports = {}
    /\ msgs = SeedMsgs
    /\ checks = {}
    /\ clock = 0
    /\ pc = [w \in Workers |-> "idle"]
    /\ req = [w \in Workers |-> R("auto", None, None, None, None, None, None)]
    /\ obj = [w \in Workers |-> [id |-> None, r |-> None]]
    /\ robj = [w \in Workers |-> None]
    /\ nreq = 0
    /\ lastPw = [u \in Users |-> IF SeedRows[u] = None THEN None ELSE SeedRows[u].pw]
    /\ seceded = [u \in Users |-> FALSE]
    /\ hidden = {}
    /\ dropped = {}
    /\ gone = {}

\* every request served
Finished == nreq = MaxRequests /\ \A w \in Workers : pc[w] = "idle"

Next ==
    \/ \E w \in Workers :
          \/ Receive(w)
          \/ SignInAuth(w) \/ SignInSocial(w) \/ SignInUser(w) \/ AutoSignInLoad(w)
          \/ PushTokenLoad(w) \/ UserProfileLoad(w) \/ UserMeLoad(w) \/ UserUpdateLoad(w)
          \/ RowSave(w)
          \/ ChangePasswordLoad(w) \/ TempPasswordLoad(w) \/ PasswordSave(w)
          \/ ConnectLoad(w) \/ ConnectInsert(w) \/ Disconnect(w)
          \/ InactiveLoad(w) \/ InactiveClear(w) \/ InactiveSave(w) \/ InactiveAbort(w)
          \/ SignUp(w)
          \/ CreateLoad(w) \/ CreateCheck(w) \/ CreateTxn(w) \/ DestroyGet(w)
          \/ DestroyTxn(w) \/ ReviewUpdateLoad(w) \/ ReviewUpdateSave(w)
          \/ LikeLoad(w) \/ LikeTxn(w) \/ LikeMsgGet(w) \/ LikeMsgNew(w)
          \/ LikeMsgUpdate(w)
          \/ ReportGet(w) \/ ReportCreate(w) \/ ReportSave(w)
          \/ MsgListRead(w) \/ MsgListInsert(w) \/ MsgDestroyLoad(w) \/ MsgDestroySave(w)
          \/ MsgDeleteAll(w) \/ MsgDeleteRead(w) \/ MsgCount(w)
          \/ MsgCheckGet(w) \/ MsgCheckSave(w)
    \/ Tick
    \/ Finished /\ UNCHANGED vars

Spec == Init /\ [][Next]_vars

-----------------------------------------------------------------------------
(* Properties.                                                             *)

Row == [active : BOOLEAN, pw : Passwords, rc : 0..Cardinality(Products),
        lc : 0..Cardinality(Users \X Products)]

TypeOK ==
    /\ row \in [Users -> Row \cup {None}]
    /\ social \subseteq [user : Users, uid : Uids]
    /\ reviews \subseteq [id : Int, user : Users, product : Products, display : BOOLEAN,
                          likes : 0..Cardinality(Users), reports : Nat]
    /\ likes \subseteq [writer : Users, product : Products, register : Users]
    /\ reports \subseteq [review : Int, user : Users]
    /\ msgs \subseteq [id : Int, user : Users, ref : Int \cup {None}, active : BOOLEAN,
                       updated : 0..MaxClock]
    /\ checks \subseteq [id : Int \X Int, user : Users, msg : Int, at : 0..MaxClock,
                         read : BOOLEAN, deleted : BOOLEAN]
    /\ nreq \in 0..MaxRequests

\* Once AccountInactiveView has saved is_active = False the account stays
\* inactive: no later save of a User object loaded earlier (a sign-in, a
\* review create or destroy, or a like's writer.save()) reactivates it.
SecededStaysInactive ==
    \A u \in Users : seceded[u] => ~row[u].active

\* The stored password is the one the last password change or temporary
\* password saved: no other handler's save of an older User object puts
\* the previous hash back.
PasswordKept ==
    \A u \in Users : row[u] # None => row[u].pw = lastPw[u]

\* Between requests, review_count equals the user's review rows: create's
\* += 1, destroy's -= 1 and like's recount agree with the Review table.
ReviewCountMatches ==
    (\A w \in Workers : pc[w] = "idle") =>
        \A u \in Users : row[u] # None => row[u].rc = Cardinality(ReviewsOf(u))

\* Every SocialAccount row belongs to an active account: secession deletes
\* them and connecting one requires an active account, so no social login
\* reaches a seceded account.
SocialOwnersActive ==
    \A s \in social : Active(s.user)

\* Between requests, every review's like_count is the number of its
\* Reviewlike rows and its report_count the number of its ReportReview
\* rows: like's recount and reports' += 1, saved with review.save(), agree
\* with the tables after any sequence of likes, reports, destroys,
\* re-creates and secessions.
ReviewCountersMatch ==
    (\A w \in Workers : pc[w] = "idle") =>
        \A r \in reviews :
            /\ r.likes = Cardinality(LikesOf(likes, r.user, r.product))
            /\ r.reports = Cardinality({x \in reports : x.review = r.id})

\* A review that AccountInactiveView hid stays hidden: no later
\* review.save() of a like or a report puts is_display back.
SecessionHidesReviews ==
    \A r \in reviews : r.id \in hidden => ~r.display

\* A review has at most one active like message: make_like_message's
\* get_or_create finds the active one and updates it, and a new one is
\* created only after destroy, a deletion or the 14-day expiry set the old
\* one inactive.
OneActiveLikeMessage ==
    \A m1, m2 \in msgs :
        (m1.active /\ m2.active /\ m1.ref # None /\ m1.ref = m2.ref) => m1.id = m2.id

\* A message the user deleted (destroy, delete all, delete read) stays
\* inactive: make_like_message's obj.save() of a message it loaded
\* earlier, or any other write, never makes it active again.
DeletedMessageStaysInactive ==
    \A m \in msgs : m.id \in dropped => ~m.active

\* A MessageCheck that destroy, delete all or delete read marked deleted
\* stays deleted while it exists: check's obj.save() of the row it loaded
\* writes deleted_at back as it found it.
DeletedCheckStaysDeleted ==
    \A c \in checks : c.id \in gone => c.deleted

\* A user has at most one MessageCheck row per message: check's
\* get_or_create(user, message) raises MultipleObjectsReturned on a second.
OneCheckPerMessage ==
    \A c1, c2 \in checks : (c1.user = c2.user /\ c1.msg = c2.msg) => c1.id = c2.id

====
